---------------------------- MODULE Spec2Model ----------------------------
(***************************************************************************)
(* Model of the Bambu Lab NFC tag codec of spool-coder:                    *)
(*   src/src/services/nfc/bambu_key.py        (key derivation)             *)
(*   src/src/services/nfc/bambu_algorithm.py  (encoder / decoder)          *)
(* Bytes are integers 0..255, byte strings are sequences of bytes; the     *)
(* Python offset i of a buffer is index i+1 of the sequence.               *)
(***************************************************************************)
EXTENDS Integers, Sequences, FiniteSets, TLC

(***************************************************************************)
(* Byte arithmetic                                                         *)
(***************************************************************************)
Byte == 0..255

Bit(x, i) == (x \div (2^i)) % 2

XorBits(a, b) ==
    ((Bit(a,0) + Bit(b,0)) % 2)
  + ((Bit(a,1) + Bit(b,1)) % 2) * 2
  + ((Bit(a,2) + Bit(b,2)) % 2) * 4
  + ((Bit(a,3) + Bit(b,3)) % 2) * 8
  + ((Bit(a,4) + Bit(b,4)) % 2) * 16
  + ((Bit(a,5) + Bit(b,5)) % 2) * 32
  + ((Bit(a,6) + Bit(b,6)) % 2) * 64
  + ((Bit(a,7) + Bit(b,7)) % 2) * 128

XorTable == [a \in Byte |-> [b \in Byte |-> XorBits(a, b)]]

\* Python's ^ on two bytes
Xor(a, b) == XorTable[a][b]

\* data[lo:hi] of Python (0-based, hi exclusive, clipped to the length)
Slice(data, lo, hi) ==
    LET h == IF hi > Len(data) THEN Len(data) ELSE hi
    IN  IF lo >= h THEN << >> ELSE SubSeq(data, lo + 1, h)

Zeros(n) == [i \in 1..n |-> 0]

\* struct.pack("<H", v) for 0 <= v < 2^16
PackU16(v) == << v % 256, v \div 256 >>

\* struct.unpack("<H", b)
UnpackU16(b) == b[1] + 256 * b[2]

(***************************************************************************)
(* binascii.crc32: reflected CRC-32, polynomial EDB88320, initial value    *)
(* and final xor FFFFFFFF.  A 32-bit word is kept as its four bytes in     *)
(* little-endian order, which is also what struct.pack("<I", crc) writes.  *)
(***************************************************************************)
CrcPoly == << 32, 131, 184, 237 >>

Shr1(c) == << (c[1] \div 2) + (c[2] % 2) * 128,
              (c[2] \div 2) + (c[3] % 2) * 128,
              (c[3] \div 2) + (c[4] % 2) * 128,
              c[4] \div 2 >>

Xor32(a, b) == << Xor(a[1], b[1]), Xor(a[2], b[2]), Xor(a[3], b[3]), Xor(a[4], b[4]) >>

RECURSIVE CrcBits(_, _)
CrcBits(c, k) ==
    IF k = 0 THEN c
    ELSE CrcBits(IF c[1] % 2 = 1 THEN Xor32(Shr1(c), CrcPoly) ELSE Shr1(c), k - 1)

CrcTable == [n \in Byte |-> CrcBits(<< n, 0, 0, 0 >>, 8)]

CrcStep(c, b) ==
    LET t == CrcTable[Xor(c[1], b)]
    IN  << Xor(t[1], c[2]), Xor(t[2], c[3]), Xor(t[3], c[4]), t[4] >>

RECURSIVE CrcFold(_, _, _, _)
CrcFold(c, data, lo, hi) ==
    IF lo > hi THEN c
    ELSE IF lo = hi THEN CrcStep(c, data[lo])
    ELSE LET mid  == (lo + hi) \div 2
             left == CrcFold(c, data, lo, mid)
         IN  \* the test makes TLC compute the left half before it descends
             IF left[1] \in Byte THEN CrcFold(left, data, mid + 1, hi) ELSE left

\* binascii.crc32(data), as the four bytes of the unsigned result
crc32(data) ==
    LET c == CrcFold(<< 255, 255, 255, 255 >>, data, 1, Len(data))
    IN  << 255 - c[1], 255 - c[2], 255 - c[3], 255 - c[4] >>

(***************************************************************************)
(* struct "<I": an unsigned 32-bit value is kept as its two 16-bit halves  *)
(* [hi, lo] (value = hi * 65536 + lo), so that no value exceeds TLC's      *)
(* integer range.                                                          *)
(***************************************************************************)
PackU32(v) == PackU16(v.lo) \o PackU16(v.hi)

UnpackU32(b) == [hi |-> UnpackU16(<< b[3], b[4] >>), lo |-> UnpackU16(<< b[1], b[2] >>)]

(***************************************************************************)
(* struct "<f": IEEE-754 binary32.  A Python float given to the encoder is *)
(* written here as the decimal [neg, num, den] = (-1)^neg * num / den,     *)
(* with den = 0 for float('inf').                                          *)
(* PackF32 rounds it to the nearest binary32 (ties to even) and gives the  *)
(* four little-endian bytes.                                               *)
(***************************************************************************)
Two23 == 2 ^ 23
Two24 == 2 ^ 24

\* value = (m + r/d) * 2^e ; shift until 2^23 <= m < 2^24
RECURSIVE Normalize(_, _, _, _)
Normalize(m, r, d, e) ==
    IF m >= Two24 THEN Normalize(m \div 2, (m % 2) * d + r, 2 * d, e + 1)
    ELSE IF m < Two23 THEN Normalize(2 * m + ((2 * r) \div d), (2 * r) % d, d, e - 1)
    ELSE << m, r, d, e >>

PackF32(x) ==
    IF x.den = 0 THEN << 0, 0, 128, IF x.neg THEN 255 ELSE 127 >>
    ELSE IF x.num = 0 THEN << 0, 0, 0, IF x.neg THEN 128 ELSE 0 >>
    ELSE LET nz == Normalize(x.num \div x.den, x.num % x.den, x.den, 0)
             up == \/ 2 * nz[2] > nz[3]
                   \/ 2 * nz[2] = nz[3] /\ nz[1] % 2 = 1
             m1 == IF up THEN nz[1] + 1 ELSE nz[1]
             m  == IF m1 = Two24 THEN Two23 ELSE m1
             e  == IF m1 = Two24 THEN nz[4] + 1 ELSE nz[4]
             field == e + 150
             mant  == m - Two23
         IN  << mant % 256,
                (mant \div 256) % 256,
                (mant \div 65536) + (field % 2) * 128,
                (field \div 2) + (IF x.neg THEN 128 ELSE 0) >>

\* struct.unpack("<f", b): [kind, neg, m, e] with value = m * 2^e
UnpackF32(b) ==
    LET field == (b[4] % 128) * 2 + (b[3] \div 128)
        mant  == (b[3] % 128) * 65536 + b[2] * 256 + b[1]
        neg   == b[4] >= 128
    IN  IF field = 255
          THEN [kind |-> IF mant = 0 THEN "inf" ELSE "nan", neg |-> neg, m |-> 0, e |-> 0]
        ELSE IF field = 0
          THEN [kind |-> "num", neg |-> neg, m |-> mant, e |-> -149]
        ELSE [kind |-> "num", neg |-> neg, m |-> mant + Two23, e |-> field - 150]

Pow10(nd) == IF nd = 0 THEN 1 ELSE IF nd = 1 THEN 10 ELSE IF nd = 2 THEN 100 ELSE 1000

\* the largest integer TLC represents
MaxInt == (2 ^ 30 - 1) * 2 + 1

Two12 == 2 ^ 12

(***************************************************************************)
(* Python's round(x, nd) (and round(x) for nd = 0) of an unpacked float:   *)
(* the nearest multiple of 10^-nd, ties to even, as [kind, neg, k, nd]     *)
(* with value = k / 10^nd.  "big" stands for a magnitude whose scaled      *)
(* value exceeds 2^31 - 1.  inf and nan stay inf and nan.                  *)
(* For x = m / 2^s the fraction (m mod 2^s) * 10^nd / 2^s is divided in    *)
(* two 12-bit limbs, so that no product leaves the integer range.          *)
(***************************************************************************)
RoundF(f, nd) ==
    IF f.kind # "num" THEN [kind |-> f.kind, neg |-> f.neg, k |-> 0, nd |-> nd]
    ELSE IF f.e >= 0
      THEN IF f.e > 6 \/ f.m * (2 ^ f.e) > MaxInt \div Pow10(nd)
             THEN [kind |-> "big", neg |-> f.neg, k |-> 0, nd |-> nd]
             ELSE [kind |-> "num", neg |-> f.neg, k |-> f.m * (2 ^ f.e) * Pow10(nd), nd |-> nd]
    ELSE IF -f.e > 41
      THEN [kind |-> "num", neg |-> f.neg, k |-> 0, nd |-> nd]
    ELSE LET s    == -f.e
             P    == Pow10(nd)
             ip   == IF s > 24 THEN 0 ELSE f.m \div (2 ^ s)
             frac == IF s > 24 THEN f.m ELSE f.m % (2 ^ s)
             \* frac * P / 2^s = (A + r0 / 2^12) / 2^s1
             A    == IF s > 12 THEN (frac \div Two12) * P + ((frac % Two12) * P) \div Two12
                                ELSE frac * P
             r0   == IF s > 12 THEN ((frac % Two12) * P) % Two12 ELSE 0
             s1   == IF s > 12 THEN s - 12 ELSE s
             q    == A \div (2 ^ s1)
             rem  == A % (2 ^ s1)
             k0   == ip * P + q
             up   == \/ 2 * rem > 2 ^ s1
                     \/ 2 * rem = 2 ^ s1 /\ (r0 > 0 \/ k0 % 2 = 1)
         IN  IF ip >= (MaxInt \div P) - 1
               THEN [kind |-> "big", neg |-> f.neg, k |-> 0, nd |-> nd]
               ELSE [kind |-> "num", neg |-> f.neg, k |-> IF up THEN k0 + 1 ELSE k0, nd |-> nd]

(***************************************************************************)
(* Text.  A Python str is a sequence of code points; str.encode('utf-8')   *)
(* and bytes.decode('utf-8', errors='replace') are modelled byte by byte.  *)
(***************************************************************************)
ReplacementChar == 65533

Utf8Char(cp) ==
    IF cp < 128 THEN << cp >>
    ELSE IF cp < 2048 THEN << 192 + (cp \div 64), 128 + (cp % 64) >>
    ELSE IF cp < 65536
      THEN << 224 + (cp \div 4096), 128 + ((cp \div 64) % 64), 128 + (cp % 64) >>
    ELSE << 240 + (cp \div 262144), 128 + ((cp \div 4096) % 64),
            128 + ((cp \div 64) % 64), 128 + (cp % 64) >>

RECURSIVE Utf8Encode(_)
Utf8Encode(str) ==
    IF str = << >> THEN << >> ELSE Utf8Char(Head(str)) \o Utf8Encode(Tail(str))

IsCont(b, i) == i <= Len(b) /\ b[i] >= 128 /\ b[i] <= 191

\* whether b[i] may follow the lead byte `lead` of a 3- or 4-byte sequence
Second(b, i, lead) ==
    /\ i <= Len(b)
    /\ b[i] >= (IF lead = 224 THEN 160 ELSE IF lead = 240 THEN 144 ELSE 128)
    /\ b[i] <= (IF lead = 237 THEN 159 ELSE IF lead = 244 THEN 143 ELSE 191)

RECURSIVE Utf8DecodeFrom(_, _)
Utf8DecodeFrom(b, i) ==
    IF i > Len(b) THEN << >>
    ELSE LET c == b[i] IN
      IF c < 128 THEN << c >> \o Utf8DecodeFrom(b, i + 1)
      ELSE IF c >= 194 /\ c <= 223
        THEN IF IsCont(b, i + 1)
               THEN << (c - 192) * 64 + (b[i+1] - 128) >> \o Utf8DecodeFrom(b, i + 2)
               ELSE << ReplacementChar >> \o Utf8DecodeFrom(b, i + 1)
      ELSE IF c >= 224 /\ c <= 239
        THEN IF ~Second(b, i + 1, c)
               THEN << ReplacementChar >> \o Utf8DecodeFrom(b, i + 1)
             ELSE IF ~IsCont(b, i + 2)
               THEN << ReplacementChar >> \o Utf8DecodeFrom(b, i + 2)
             ELSE << (c - 224) * 4096 + (b[i+1] - 128) * 64 + (b[i+2] - 128) >>
                  \o Utf8DecodeFrom(b, i + 3)
      ELSE IF c >= 240 /\ c <= 244
        THEN IF ~Second(b, i + 1, c)
               THEN << ReplacementChar >> \o Utf8DecodeFrom(b, i + 1)
             ELSE IF ~IsCont(b, i + 2)
               THEN << ReplacementChar >> \o Utf8DecodeFrom(b, i + 2)
             ELSE IF ~IsCont(b, i + 3)
               THEN << ReplacementChar >> \o Utf8DecodeFrom(b, i + 3)
             ELSE << (c - 240) * 262144 + (b[i+1] - 128) * 4096
                     + (b[i+2] - 128) * 64 + (b[i+3] - 128) >>
                  \o Utf8DecodeFrom(b, i + 4)
      ELSE << ReplacementChar >> \o Utf8DecodeFrom(b, i + 1)

Utf8Decode(b) == Utf8DecodeFrom(b, 1)

(***************************************************************************)
(* Colours are sequences of one-character strings, "#1E88E5" being         *)
(* << "#", "1", "E", "8", "8", "E", "5" >>.                                *)
(***************************************************************************)
HexUpper == << "0", "1", "2", "3", "4", "5", "6", "7", "8", "9",
               "A", "B", "C", "D", "E", "F" >>
HexLower == << "0", "1", "2", "3", "4", "5", "6", "7", "8", "9",
               "a", "b", "c", "d", "e", "f" >>

IsHexDigit(ch) == \E i \in 1..16 : HexUpper[i] = ch \/ HexLower[i] = ch

HexVal(ch) == (CHOOSE i \in 1..16 : HexUpper[i] = ch \/ HexLower[i] = ch) - 1

\* int(s, 16) of a two-character string of hex digits
HexByte(c1, c2) == 16 * HexVal(c1) + HexVal(c2)

\* f"{v:02X}"
Fmt02X(v) == << HexUpper[(v \div 16) + 1], HexUpper[(v % 16) + 1] >>

(***************************************************************************)
(* State                                                                   *)
(***************************************************************************)
VARIABLES
    cryptodome,   \* bambu_key.CRYPTODOME_AVAILABLE: which derive_bambu_key was defined
    encoder,      \* the BambuLabNFCEncoder instance: [tag_uid, xor_key]
    decoder,      \* the BambuLabNFCDecoder instance: [tag_uid, xor_key]
    image,        \* the tag image in flight (bytes)
    origin,       \* how the image came about: [kind, rec, uid, key, pos, bit]
    last,         \* the last step: [op, uid, before, outcome, record, trace, key]
    ctor,         \* the tag_uid arguments the two instances were constructed with
    threads,      \* the decode_tag_data calls in progress on the shared decoder:
                  \* per thread [pc, uid, raw, decrypted, used, outcome, record, alone]
    payload,      \* the argument of the last NFCPayloadDecoder.decode_payload call
    result,       \* how that call ended: [kind, exc, rec]
    device,       \* the NFCDevice instance: [connected, simulation_mode]
    auth,         \* the global AuthorizationService: [authorized, user_authenticated]
    calls         \* the calls made on the device and the service so far, each
                  \* [op, args, ret, connected, before, after]

vars == << cryptodome, encoder, decoder, image, origin, last, ctor, threads, payload, result, device, auth, calls >>

\* NFCDevice.__init__ in simulation mode
NewDevice == [connected |-> FALSE, simulation_mode |-> TRUE]

\* AuthorizationService.__init__
NewAuthorizationService == [authorized |-> FALSE, user_authenticated |-> FALSE]

\* no decode_payload call yet
NoPayload == [t |-> "unset"]
NoResult == [kind |-> "none"]

(***************************************************************************)
(* Optional UIDs: None, or Some(bytes).  bool(uid) of Python is Truthy.    *)
(***************************************************************************)
None == [some |-> FALSE, v |-> << >>]
Some(u) == [some |-> TRUE, v |-> u]
Truthy(uid) == uid.some /\ uid.v # << >>

Uid1 == << 17, 34, 51, 68 >>
\* default_uid of decode_tag_data
default_uid == << 170, 85, 204, 51 >>

(***************************************************************************)
(* bambu_key.py.  The hash primitives are library code: HkdfOkm(uid) and   *)
(* HmacDigest(uid) are the first 32 bytes they return for the UIDs of the  *)
(* model (HKDF-SHA256 with salt = master, context "RFID-A\0"; HMAC-SHA256  *)
(* keyed with uid + context over master).                                  *)
(***************************************************************************)
HkdfOkm(uid) ==
    CASE uid = Uid1 ->
           << 7, 41, 243, 178, 211, 122, 32, 39, 33, 13, 133, 231, 215, 123, 46, 124,
              146, 188, 41, 18, 106, 83, 162, 238, 228, 152, 80, 246, 39, 120, 154, 145 >>
      [] uid = default_uid ->
           << 73, 93, 98, 151, 125, 107, 83, 248, 250, 211, 50, 12, 218, 56, 97, 32,
              213, 149, 182, 110, 152, 123, 197, 208, 104, 216, 140, 94, 157, 144, 104, 118 >>
      [] OTHER ->
           << 146, 89, 47, 165, 155, 1, 46, 197, 46, 193, 173, 5, 191, 218, 178, 135,
              249, 89, 35, 251, 158, 202, 150, 110, 178, 181, 205, 242, 167, 205, 9, 4 >>

HmacDigest(uid) ==
    CASE uid = Uid1 ->
           << 203, 109, 239, 116, 164, 83, 161, 29, 128, 136, 220, 83, 175, 204, 125, 132,
              216, 33, 218, 115, 84, 196, 118, 98, 186, 183, 13, 81, 107, 187, 202, 228 >>
      [] uid = default_uid ->
           << 201, 53, 73, 193, 73, 69, 65, 188, 51, 100, 81, 89, 6, 136, 5, 40,
              35, 165, 75, 32, 10, 2, 224, 153, 58, 234, 235, 2, 140, 177, 91, 135 >>
      [] OTHER ->
           << 155, 236, 250, 178, 81, 218, 108, 253, 210, 54, 127, 165, 85, 188, 163, 77,
              126, 198, 165, 111, 106, 234, 115, 41, 233, 114, 64, 18, 89, 197, 36, 11 >>

\* HKDF(uid, 6, master, SHA256, 16, context=...): key_len = 6, num_keys = 16
HkdfKeyLen == 6
HkdfNumKeys == 16

\* the list HKDF returns; only its first chunks lie inside the modelled output
HKDF(uid, key_len, num_keys) ==
    [i \in 1..(IF num_keys * key_len <= 32 THEN num_keys ELSE 32 \div key_len) |->
        Slice(HkdfOkm(uid), (i - 1) * key_len, i * key_len)]

\* derive_bambu_key of the pycryptodomex branch: result[0]
derive_bambu_key_hkdf(uid) == HKDF(uid, HkdfKeyLen, HkdfNumKeys)[1]

SimpleKdfLen == 16

\* simple_kdf(master, salt, key_len): one digest is 32 bytes, so the loop never runs
simple_kdf(uid, key_len) == Slice(HmacDigest(uid), 0, key_len)

\* derive_bambu_key of the fallback branch
derive_bambu_key_fallback(uid) == simple_kdf(uid, SimpleKdfLen)

derive_bambu_key(uid) ==
    IF cryptodome THEN derive_bambu_key_hkdf(uid) ELSE derive_bambu_key_fallback(uid)

(***************************************************************************)
(* bambu_algorithm.py: class constants                                     *)
(***************************************************************************)
TAG_HEADER == << 170, 85, 204, 51 >>

\* the placeholder key used when BAMBU_XOR_KEY is not set
XOR_KEY == << 1, 35, 69, 103, 137, 171, 205, 239, 1, 35, 69, 103, 137, 171, 205, 239 >>

SPOOL_DATA_OFFSET == 128
HEADER_SIZE == 16
CHECKSUM_OFFSET == 512
CHECKSUM_SIZE == 4
TAG_SIZE == 1024
MIN_LENGTH == 512
MFG_OFFSET == 256
STRING_FIELD == 32

FILAMENT_TYPES ==
    << "PLA Basic", "PLA", "PETG Basic", "PETG", "ABS", "TPU", "PLA-CF", "PA-CF",
       "PET-CF", "ASA", "PC", "PA", "Support", "PVA", "HIPS" >>

\* BambuLabNFCDecoder.FILAMENT_TYPES.get(id, "Unknown")
TypeName(id) == IF id < Len(FILAMENT_TYPES) THEN FILAMENT_TYPES[id + 1] ELSE "Unknown"

\* BambuLabNFCEncoder.FILAMENT_TYPES.get(name, 1)
TypeId(name) ==
    IF \E i \in 1..Len(FILAMENT_TYPES) : FILAMENT_TYPES[i] = name
      THEN (CHOOSE i \in 1..Len(FILAMENT_TYPES) : FILAMENT_TYPES[i] = name) - 1
      ELSE 1

(***************************************************************************)
(* __init__ of both classes                                                *)
(***************************************************************************)
NewCodec(tag_uid) ==
    [tag_uid  |-> tag_uid,
     xor_key  |-> IF Truthy(tag_uid) THEN derive_bambu_key(tag_uid.v) ELSE XOR_KEY]

\* UpdateKey as if the derived key were never stored
UpdateKeyStale(self, tag_uid) ==
    IF Truthy(tag_uid) /\ tag_uid # self.tag_uid
      THEN [tag_uid |-> tag_uid, xor_key |-> self.xor_key]
      ELSE self

\* UpdateKey as if only an instance without a UID took the UID of a call
UpdateKeyOnce(self, tag_uid) ==
    IF Truthy(tag_uid) /\ ~Truthy(self.tag_uid)
      THEN [tag_uid |-> tag_uid, xor_key |-> derive_bambu_key(tag_uid.v)]
      ELSE self

\* "If a new UID is provided, update and derive the key"
UpdateKey(self, tag_uid) ==
    IF Truthy(tag_uid) /\ tag_uid # self.tag_uid
      THEN [tag_uid |-> tag_uid, xor_key |-> derive_bambu_key(tag_uid.v)]
      ELSE self

\* _encrypt_data and _decrypt_data: XOR of everything after the header signature
XorData(key, data) ==
    [i \in 1..Len(data) |->
        IF i <= 4 THEN data[i] ELSE Xor(data[i], key[((i - 5) % Len(key)) + 1])]

(***************************************************************************)
(* BambuLabNFCEncoder                                                      *)
(***************************************************************************)
\* buffer[offset:offset+len(b)] = b  (also struct.pack_into)
SetAt(buffer, offset, b) ==
    SubSeq(buffer, 1, offset) \o b \o SubSeq(buffer, offset + Len(b) + 1, Len(buffer))

\* _encode_string as if max_length bytes of the string were written before the NUL
encode_string_full(buffer, offset, string, max_length) ==
    LET bytes_to_write == Slice(Utf8Encode(string), 0, max_length)
    IN  SetAt(SetAt(buffer, offset, bytes_to_write), offset + Len(bytes_to_write), << 0 >>)

\* _encode_string: string.encode('utf-8')[:max_length-1], then a NUL
encode_string(buffer, offset, string, max_length) ==
    LET bytes_to_write == Slice(Utf8Encode(string), 0, max_length - 1)
    IN  SetAt(SetAt(buffer, offset, bytes_to_write), offset + Len(bytes_to_write), << 0 >>)

\* the three colour bytes: int(color[1:3], 16) ..., white when the shape is wrong
ColorBytes(color) ==
    IF Len(color) = 7 /\ color[1] = "#"
      THEN << HexByte(color[2], color[3]), HexByte(color[4], color[5]),
              HexByte(color[6], color[7]) >>
      ELSE << 255, 255, 255 >>

\* _encode_spool_data
encode_spool_data(buffer, spool_info) ==
    LET offset == SPOOL_DATA_OFFSET
        b1 == SetAt(buffer, offset, PackU16(TypeId(spool_info.type)))
        b2 == SetAt(b1, offset + 2, ColorBytes(spool_info.color))
        b3 == SetAt(b2, offset + 5, PackF32(spool_info.diameter))
        b4 == SetAt(b3, offset + 9, PackU16(spool_info.nozzle_temp))
        b5 == SetAt(b4, offset + 11, PackU16(spool_info.bed_temp))
        b6 == SetAt(b5, offset + 13, PackF32(spool_info.density))
        b7 == SetAt(b6, offset + 17, PackF32(spool_info.remaining_length))
        b8 == SetAt(b7, offset + 21, PackF32(spool_info.remaining_weight))
        b9 == encode_string(b8, offset + 25, spool_info.manufacturer, STRING_FIELD)
    IN  encode_string(b9, offset + 25 + STRING_FIELD, spool_info.name, STRING_FIELD)

\* _encode_manufacturing_info
encode_manufacturing_info(buffer, mfg_info) ==
    LET b1 == encode_string(buffer, MFG_OFFSET, mfg_info.serial, STRING_FIELD)
    IN  SetAt(b1, MFG_OFFSET + STRING_FIELD, PackU32(mfg_info.date))

\* the buffer of encode_tag_data just before the checksum is inserted
PlainFields(rec) ==
    LET b0 == SetAt(Zeros(TAG_SIZE), 0, TAG_HEADER)
        b1 == SetAt(b0, 4, << rec.version >>)
        b2 == SetAt(b1, 5, rec.flags)
        b3 == encode_spool_data(b2, rec.spool_data)
    IN  encode_manufacturing_info(b3, rec.manufacturing_info)

\* "Calculate and insert checksum"
InsertChecksum(buffer) ==
    SetAt(buffer, CHECKSUM_OFFSET, crc32(Slice(buffer, 0, CHECKSUM_OFFSET)))

\* _encrypt_data as if the loop started at offset 0
encrypt_data_all(key, buffer) ==
    [i \in 1..Len(buffer) |-> Xor(buffer[i], key[((i - 1) % Len(key)) + 1])]

encrypt_data(key, buffer) == XorData(key, buffer)

\* struct.pack and int(.., 16) raise on these records
EncodeRaises(rec) ==
    \/ rec.spool_data.nozzle_temp \notin 0..65535
    \/ rec.spool_data.bed_temp \notin 0..65535
    \/ /\ Len(rec.spool_data.color) = 7
       /\ rec.spool_data.color[1] = "#"
       /\ \E i \in 2..7 : ~IsHexDigit(rec.spool_data.color[i])

\* encode_tag_data(self, spool_data, tag_uid): the instance afterwards and the bytes
encode_tag_data(self, rec, tag_uid) ==
    LET s1 == UpdateKey(self, tag_uid)
    IN  IF EncodeRaises(rec)
          THEN [self |-> s1, outcome |-> "raised", data |-> << >>]
          ELSE [self |-> s1, outcome |-> "ok",
                data |-> encrypt_data(s1.xor_key, InsertChecksum(PlainFields(rec)))]

(***************************************************************************)
(* BambuLabNFCDecoder                                                      *)
(***************************************************************************)
verify_header(data) == Slice(data, 0, 4) = TAG_HEADER

\* _decrypt_data as if the key index were i % key_len
decrypt_data_shifted(key, data) ==
    [i \in 1..Len(data) |->
        IF i <= 4 THEN data[i] ELSE Xor(data[i], key[((i - 1) % Len(key)) + 1])]

decrypt_data(key, data) == XorData(key, data)

\* struct.unpack("<I", data[512:516]) raises unless the slice holds 4 bytes
ChecksumRaises(data) ==
    Len(Slice(data, CHECKSUM_OFFSET, CHECKSUM_OFFSET + CHECKSUM_SIZE)) # CHECKSUM_SIZE

\* _verify_checksum as if the comparison were left out
verify_checksum_skipped(data) == TRUE

verify_checksum(data) ==
    crc32(Slice(data, 0, CHECKSUM_OFFSET))
        = Slice(data, CHECKSUM_OFFSET, CHECKSUM_OFFSET + CHECKSUM_SIZE)

\* _extract_string: the loop leaves end_pos at offset when it meets no zero byte
RECURSIVE FirstZero(_, _, _)
FirstZero(data, i, stop) ==
    IF i >= stop THEN -1
    ELSE IF i >= Len(data) \/ data[i + 1] = 0 THEN i
    ELSE FirstZero(data, i + 1, stop)

extract_string(data, offset, max_length) ==
    LET z == FirstZero(data, offset, offset + max_length)
        end_pos == IF z = -1 THEN offset ELSE z
    IN  Utf8Decode(Slice(data, offset, end_pos))

\* round(weight) raises for inf and nan
ParseRaises(data) ==
    UnpackF32(Slice(data, SPOOL_DATA_OFFSET + 21, SPOOL_DATA_OFFSET + 25)).kind # "num"

\* _parse_tag_data
parse_tag_data(data) ==
    LET o == SPOOL_DATA_OFFSET
        type_id == UnpackU16(Slice(data, o, o + 2))
    IN  [version |-> data[5],
         flags   |-> Slice(data, 5, 8),
         spool_data |->
           [type_id  |-> type_id,
            type     |-> TypeName(type_id),
            color    |-> << "#" >> \o Fmt02X(data[o + 3]) \o Fmt02X(data[o + 4])
                                   \o Fmt02X(data[o + 5]),
            diameter |-> RoundF(UnpackF32(Slice(data, o + 5, o + 9)), 2),
            nozzle_temp |-> UnpackU16(Slice(data, o + 9, o + 11)),
            bed_temp    |-> UnpackU16(Slice(data, o + 11, o + 13)),
            density  |-> RoundF(UnpackF32(Slice(data, o + 13, o + 17)), 3),
            remaining_length |-> RoundF(UnpackF32(Slice(data, o + 17, o + 21)), 1),
            remaining_weight |-> RoundF(UnpackF32(Slice(data, o + 21, o + 25)), 0),
            manufacturer |-> extract_string(data, o + 25, STRING_FIELD),
            name |-> extract_string(data, o + 25 + STRING_FIELD, STRING_FIELD)],
         manufacturing_info |->
           [serial |-> extract_string(data, MFG_OFFSET, STRING_FIELD),
            date   |-> UnpackU32(Slice(data, MFG_OFFSET + STRING_FIELD,
                                       MFG_OFFSET + STRING_FIELD + 4))]]

NoRecord == [version |-> 0]

\* DefaultKey as if the default UID gave the key of the call but was not stored
DefaultKeyUnstored(self) ==
    IF ~Truthy(self.tag_uid)
      THEN [tag_uid |-> self.tag_uid, xor_key |-> derive_bambu_key(default_uid)]
      ELSE self

\* "Try to extract UID from the raw data if not provided"
DefaultKey(self) ==
    IF ~Truthy(self.tag_uid)
      THEN [tag_uid |-> Some(default_uid), xor_key |-> derive_bambu_key(default_uid)]
      ELSE self

\* a decode_tag_data that replaced a nozzle or bed temperature outside
\* [150, 350] and [0, 150] by 200 and 60 before returning the record
RetSubstituted(s, outcome, record, trace, key) ==
    [self |-> s, outcome |-> outcome,
     record |->
       IF outcome # "ok" THEN record
       ELSE [record EXCEPT
               !.spool_data.nozzle_temp = IF @ >= 150 /\ @ <= 350 THEN @ ELSE 200,
               !.spool_data.bed_temp    = IF @ <= 150 THEN @ ELSE 60],
     trace |-> trace, key |-> key]

\* the result of decode_tag_data: the instance afterwards, the way the call
\* ended, the record returned, the steps taken and the key used to decrypt
Ret(s, outcome, record, trace, key) ==
    [self |-> s, outcome |-> outcome, record |-> record, trace |-> trace, key |-> key]

\* decode_tag_data from "Verify checksum" on, given the decrypted bytes
Verified(s2, decrypted) ==
    IF ChecksumRaises(decrypted)
      THEN Ret(s2, "raised", NoRecord,
               << "length", "header", "decrypt", "checksum" >>, s2.xor_key)
    ELSE IF ~verify_checksum(decrypted)
      THEN Ret(s2, "checksum_mismatch", NoRecord,
               << "length", "header", "decrypt", "checksum" >>, s2.xor_key)
    ELSE IF ParseRaises(decrypted)
      THEN Ret(s2, "raised", NoRecord,
               << "length", "header", "decrypt", "checksum", "parse" >>, s2.xor_key)
    ELSE Ret(s2, "ok", parse_tag_data(decrypted),
             << "length", "header", "decrypt", "checksum", "parse" >>, s2.xor_key)

\* decode_tag_data from the default-UID step on
Decrypted(s2, raw_data) == Verified(s2, decrypt_data(s2.xor_key, raw_data))

\* decode_tag_data as if the data were decrypted before the header check
decode_tag_data_decrypt_first(self, raw_data, tag_uid) ==
    LET s1 == UpdateKey(self, tag_uid)
    IN  IF Len(raw_data) < MIN_LENGTH
          THEN Ret(s1, "too_short", NoRecord, << "length" >>, << >>)
        ELSE IF ~verify_header(decrypt_data(DefaultKey(s1).xor_key, raw_data))
          THEN Ret(DefaultKey(s1), "header_invalid", NoRecord,
                   << "length", "decrypt", "header" >>, DefaultKey(s1).xor_key)
        ELSE Decrypted(DefaultKey(s1), raw_data)

\* decode_tag_data(self, raw_data, tag_uid)
decode_tag_data(self, raw_data, tag_uid) ==
    LET s1 == UpdateKey(self, tag_uid)
    IN  IF Len(raw_data) < MIN_LENGTH
          THEN Ret(s1, "too_short", NoRecord, << "length" >>, << >>)
        ELSE IF ~verify_header(raw_data)
          THEN Ret(s1, "header_invalid", NoRecord, << "length", "header" >>, << >>)
        ELSE Decrypted(DefaultKey(s1), raw_data)

(***************************************************************************)
(* Inputs: spool records handed to encode_tag_data                         *)
(***************************************************************************)
F(num, den) == [neg |-> FALSE, num |-> num, den |-> den]
Inf == [neg |-> FALSE, num |-> 1, den |-> 0]

Rec(type, color, diameter, nozzle_temp, bed_temp, density, remaining_length, remaining_weight, manufacturer, name, serial, date) ==
    [version |-> 1,
     flags   |-> << 0, 0, 0 >>,
     spool_data |->
       [type |-> type, color |-> color, diameter |-> diameter,
        nozzle_temp |-> nozzle_temp, bed_temp |-> bed_temp, density |-> density,
        remaining_length |-> remaining_length, remaining_weight |-> remaining_weight,
        manufacturer |-> manufacturer, name |-> name],
     manufacturing_info |-> [serial |-> serial, date |-> date]]

\* "Bambu Lab", "Bambu PLA Matte", "BL12345678"
SAMPLE_TAG_DATA ==
    Rec("PLA", << "#", "1", "E", "8", "8", "E", "5" >>, F(175, 100), 220, 60,
        F(124, 100), F(240, 1), F(1000, 1),
        << 66, 97, 109, 98, 117, 32, 76, 97, 98 >>,
        << 66, 97, 109, 98, 117, 32, 80, 76, 65, 32, 77, 97, 116, 116, 101 >>,
        << 66, 76, 49, 50, 51, 52, 53, 54, 55, 56 >>,
        [hi |-> 24824, lo |-> 46336])

\* every field at an end of its range; a 31-byte manufacturer with two-byte
\* characters ("Cafe Filament eeeeeeee" with e-acute), an empty name
EdgeRecord ==
    Rec("HIPS", << "#", "F", "F", "0", "0", "A", "A" >>, F(3, 1), 65535, 0,
        F(1245, 1000), F(999995, 100), F(49995, 10),
        << 67, 97, 102, 233, 32, 70, 105, 108, 97, 109, 101, 110, 116, 32,
           233, 233, 233, 233, 233, 233, 233, 233 >>,
        << >>,
        << 83, 67, 49, 55, 51, 48, 55, 48, 48, 48, 48, 48 >>,
        [hi |-> 65535, lo |-> 65535])

\* lower-case hex digits in the colour
LowerColorRecord ==
    Rec("PETG", << "#", "1", "e", "8", "8", "e", "5" >>, F(285, 100), 240, 80,
        F(127, 100), F(3333, 10), F(7504, 10),
        << 101, 83, 117, 110 >>, << 80, 69, 84, 71, 45, 49 >>, << >>,
        [hi |-> 0, lo |-> 0])

\* a diameter that binary32 cannot hold: 16777217
BigFloatRecord ==
    Rec("ABS", << "#", "0", "0", "0", "0", "0", "0" >>, F(16777217, 1), 250, 100,
        F(104, 100), F(1, 10), F(1, 2),
        << 101, 83, 117, 110 >>, << 65, 66, 83 >>, << 83, 49 >>,
        [hi |-> 1, lo |-> 0])

\* a name with a NUL character inside: "A\0B"
NulNameRecord ==
    Rec("TPU", << "#", "A", "B", "C", "D", "E", "F" >>, F(175, 100), 230, 50,
        F(121, 100), F(100, 1), F(250, 1),
        << 101, 83, 117, 110 >>, << 65, 0, 66 >>, << 83, 50 >>,
        [hi |-> 0, lo |-> 1])

\* a type outside the table, a 32-byte manufacturer ("Prusament by Prusa
\* Research a.s."), an infinite weight
OddRecord ==
    Rec("Nylon", << "w", "h", "i", "t", "e" >>, F(175, 100), 260, 90,
        F(114, 100), F(50, 1), Inf,
        << 80, 114, 117, 115, 97, 109, 101, 110, 116, 32, 98, 121, 32, 80, 114, 117,
           115, 97, 32, 82, 101, 115, 101, 97, 114, 99, 104, 32, 97, 46, 115, 46 >>,
        << 78 >>, << 83, 51 >>,
        [hi |-> 0, lo |-> 65535])

\* small and non-decimal floats (1/3, 1/250, 0, 3/2), a 31-byte manufacturer
\* with three- and four-byte characters, a 31-byte name, a two-character serial
SmallRecord ==
    Rec("PLA Basic", << "#", "0", "0", "0", "0", "0", "1" >>, F(1, 3), 0, 65535,
        F(1, 250), F(0, 1), F(3, 2),
        << 26085, 26412, 35486, 128512, 128512, 128512, 128512, 65, 66, 67, 68, 69, 70 >>,
        << 97, 98, 99, 100, 101, 102, 103, 104, 105, 106, 107, 108, 109, 110, 111, 112,
           113, 114, 115, 116, 117, 118, 119, 120, 121, 122, 48, 49, 50, 51, 52 >>,
        << 8364, 49 >>,
        [hi |-> 32768, lo |-> 0])

Records == << SAMPLE_TAG_DATA, EdgeRecord, LowerColorRecord, BigFloatRecord,
              NulNameRecord, OddRecord, SmallRecord >>

UidArgs == { None, Some(Uid1), Some(default_uid) }

AllRecords == 1..Len(Records)

(***************************************************************************)
(* The two codec calls as steps of the state machine.  `last` keeps what   *)
(* the caller saw, `origin` how the image in flight came about.            *)
(***************************************************************************)
NoCodec == [tag_uid |-> None, xor_key |-> << >>]
NoOrigin == [kind |-> "none", rec |-> 0, uid |-> None, key |-> << >>, pos |-> 0, bit |-> 0]
NoCall == [op |-> "none", uid |-> None, before |-> NoCodec, outcome |-> "none",
           record |-> NoRecord, trace |-> << >>, key |-> << >>]

\* encoder.encode_tag_data(Records[r], u)
Encode(r, u) ==
    /\ \E res \in { encode_tag_data(encoder, Records[r], u) } :
          /\ encoder' = res.self
          /\ image' = IF res.outcome = "ok" THEN res.data ELSE image
          /\ origin' = IF res.outcome = "ok"
                         THEN [kind |-> "encoded", rec |-> r, uid |-> u,
                               key |-> res.self.xor_key, pos |-> 0, bit |-> 0]
                         ELSE origin
          /\ last' = [op |-> "encode", uid |-> u, before |-> encoder,
                      outcome |-> res.outcome, record |-> NoRecord, trace |-> << >>,
                      key |-> res.self.xor_key]
    /\ UNCHANGED << cryptodome, decoder, ctor, threads, payload, result, device, auth, calls >>

\* decoder.decode_tag_data(image, u)
Decode(u) ==
    /\ \E res \in { decode_tag_data(decoder, image, u) } :
          /\ decoder' = res.self
          /\ last' = [op |-> "decode", uid |-> u, before |-> decoder,
                      outcome |-> res.outcome, record |-> res.record,
                      trace |-> res.trace, key |-> res.key]
    /\ UNCHANGED << cryptodome, encoder, image, origin, ctor, threads, payload, result, device, auth, calls >>

(***************************************************************************)
(* Specification Spec: one encoder and one decoder, each constructed with  *)
(* or without a UID, then any sequence of encode and decode calls with or  *)
(* without a UID.                                                          *)
(***************************************************************************)
SessionRecords == { 1 }
CtorArgs == { None, Some(Uid1) }

Init ==
    /\ cryptodome \in BOOLEAN
    /\ ctor \in [enc : CtorArgs, dec : CtorArgs]
    /\ encoder = NewCodec(ctor.enc)
    /\ decoder = NewCodec(ctor.dec)
    /\ image = << >>
    /\ origin = NoOrigin
    /\ last = NoCall
    /\ threads = << >>
    /\ payload = NoPayload /\ result = NoResult
    /\ device = NewDevice /\ auth = NewAuthorizationService /\ calls = << >>

Next ==
    \/ \E r \in SessionRecords, u \in UidArgs : Encode(r, u)
    \/ \E u \in UidArgs : Decode(u)

Spec == Init /\ [][Next]_vars

(***************************************************************************)
(* Properties of Spec                                                      *)
(***************************************************************************)
ModelUids == { Uid1, default_uid, << >> }

\* C5 (as stated): an image written by an encoder that never had a UID, read
\* without a UID by a decoder that never had one, decodes successfully.
DefaultKeyRoundTrip ==
    ( /\ origin.kind = "encoded" /\ origin.uid = None
      /\ ctor.enc = None /\ ~Truthy(encoder.tag_uid)
      /\ last.op = "decode" /\ last.uid = None
      /\ ctor.dec = None /\ ~Truthy(last.before.tag_uid) )
    => last.outcome = "ok"

\* the last call, made on a new instance constructed with tag_uid0
SameOnNewInstance(tag_uid0) ==
    /\ last.op = "decode" =>
          \E f \in { decode_tag_data(NewCodec(tag_uid0), image, last.uid) } :
              f.outcome = last.outcome /\ f.record = last.record
    /\ last.op = "encode" =>
          \E f \in { encode_tag_data(NewCodec(tag_uid0), Records[origin.rec], last.uid) } :
              f.outcome = last.outcome /\ f.data = image

DerivedKeyHas16Bytes ==
    \A u \in ModelUids : Len(derive_bambu_key(u)) = 16

\* C9: an instance that was given a non-empty UID, in the constructor or in a
\* call, holds and uses the key derive_bambu_key gives for that UID, after any
\* earlier calls; so an encoder and a decoder given the same UID use one key.
EqualUidsEqualKeys ==
    /\ Truthy(encoder.tag_uid) => encoder.xor_key = derive_bambu_key(encoder.tag_uid.v)
    /\ Truthy(decoder.tag_uid) => decoder.xor_key = derive_bambu_key(decoder.tag_uid.v)
    /\ last.op = "none" => encoder.tag_uid = ctor.enc /\ decoder.tag_uid = ctor.dec
    /\ last.op = "encode" /\ Truthy(last.uid) =>
          /\ encoder.tag_uid = last.uid
          /\ last.key = derive_bambu_key(last.uid.v)
          /\ last.outcome = "ok" => origin.key = last.key
    /\ last.op = "decode" /\ Truthy(last.uid) =>
          /\ decoder.tag_uid = last.uid
          /\ last.key # << >> => last.key = derive_bambu_key(last.uid.v)
    /\ Truthy(encoder.tag_uid) /\ encoder.tag_uid = decoder.tag_uid =>
          encoder.xor_key = decoder.xor_key

\* both instances were given default_uid in a call after they held Uid1, and
\* the decoder decrypted with the key the encoder encrypted with
SameUidAfterOtherUid ==
    /\ ctor.enc = Some(Uid1) /\ ctor.dec = Some(Uid1)
    /\ origin.kind = "encoded" /\ origin.uid = Some(default_uid)
    /\ last.op = "decode" /\ last.uid = Some(default_uid)
    /\ last.before.tag_uid = Some(Uid1)
    /\ last.key = origin.key /\ last.key = derive_bambu_key(default_uid)

(***************************************************************************)
(* Specification SpecTag: one tag.  A new encoder writes a record; the     *)
(* image may get one bit flipped on the way; a new decoder reads it with   *)
(* the UID it was written with.  Or the reader delivers bytes that no      *)
(* encoder wrote, and the decoder reads them with or without a UID.        *)
(***************************************************************************)
\* byte offsets where a bit is flipped: header, data, checksum, beyond
TamperBytes == { 0, 3, 4, 133, 300, 511, 512, 600 }
Bits == 0..7

\* data[pos] ^= 1 << bit
FlipBit(data, pos, bit) == SetAt(data, pos, << Xor(data[pos + 1], 2 ^ bit) >>)

\* bytes that no encoder wrote: nothing; 511 bytes with the header; exactly 512
\* and 515 bytes with the header; 512 zero bytes; 1024 bytes with one header
\* bit wrong; 1024 bytes with the header and no checksum; the first 516 bytes
\* of a written image; a whole image with a valid checksum whose name field
\* holds 32 bytes 'A' and no zero byte
FullNameImage ==
    encrypt_data(derive_bambu_key(Uid1),
                 InsertChecksum(SetAt(PlainFields(SAMPLE_TAG_DATA),
                                      SPOOL_DATA_OFFSET + 25 + STRING_FIELD,
                                      [i \in 1..STRING_FIELD |-> 65])))

Foreign(k) ==
    CASE k = 1 -> << >>
      [] k = 2 -> TAG_HEADER \o Zeros(MIN_LENGTH - 5)
      [] k = 3 -> TAG_HEADER \o Zeros(MIN_LENGTH - 4)
      [] k = 4 -> TAG_HEADER \o Zeros(MIN_LENGTH - 1)
      [] k = 5 -> Zeros(MIN_LENGTH)
      [] k = 6 -> << 170, 85, 204, 50 >> \o Zeros(TAG_SIZE - 4)
      [] k = 7 -> TAG_HEADER \o Zeros(TAG_SIZE - 4)
      [] k = 9 -> FullNameImage
      [] OTHER -> Slice(encode_tag_data(NewCodec(None), SAMPLE_TAG_DATA, Some(Uid1)).data,
                        0, CHECKSUM_OFFSET + CHECKSUM_SIZE)
ForeignKinds == 1..9

InitTag ==
    /\ cryptodome \in BOOLEAN
    /\ ctor = [enc |-> None, dec |-> None]
    /\ encoder = NewCodec(ctor.enc)
    /\ decoder = NewCodec(ctor.dec)
    /\ image = << >>
    /\ origin = NoOrigin
    /\ last = NoCall
    /\ threads = << >>
    /\ payload = NoPayload /\ result = NoResult
    /\ device = NewDevice /\ auth = NewAuthorizationService /\ calls = << >>

Write(r, u) ==
    /\ origin.kind = "none"
    /\ Encode(r, u)

Tamper(pos, bit) ==
    /\ origin.kind = "encoded" /\ last.op = "encode" /\ Truthy(origin.uid)
    /\ image' = FlipBit(image, pos, bit)
    /\ origin' = [origin EXCEPT !.kind = "tampered", !.pos = pos, !.bit = bit]
    /\ last' = [NoCall EXCEPT !.op = "tamper"]
    /\ UNCHANGED << cryptodome, encoder, decoder, ctor, threads, payload, result, device, auth, calls >>

Receive(k) ==
    /\ origin.kind = "none"
    /\ image' = Foreign(k)
    /\ origin' = [NoOrigin EXCEPT !.kind = "foreign", !.rec = k]
    /\ last' = [NoCall EXCEPT !.op = "receive"]
    /\ UNCHANGED << cryptodome, encoder, decoder, ctor, threads, payload, result, device, auth, calls >>

Read(u) ==
    /\ last.op \in { "encode", "tamper", "receive" }
    /\ origin.kind = "foreign" \/ u = origin.uid
    /\ Decode(u)

NextTag ==
    \/ \E r \in AllRecords, u \in UidArgs : Write(r, u)
    \/ \E pos \in TamperBytes, bit \in Bits : Tamper(pos, bit)
    \/ \E k \in ForeignKinds : Receive(k)
    \/ \E u \in UidArgs : Read(u)

SpecTag == InitTag /\ [][NextTag]_vars

(***************************************************************************)
(* Properties of SpecTag                                                   *)
(***************************************************************************)
\* the record the image in flight was encoded from
Written == Records[origin.rec]

\* the image was written with a non-empty UID and read back untouched with it
ReadBack ==
    /\ origin.kind = "encoded" /\ Truthy(origin.uid)
    /\ last.op = "decode" /\ last.uid = origin.uid

\* type in the material table, colour '#' and six hex digits, integers that
\* fit their fields, strings of at most 31 UTF-8 bytes
ValidRecord(rec) ==
    /\ \E i \in 1..Len(FILAMENT_TYPES) : FILAMENT_TYPES[i] = rec.spool_data.type
    /\ Len(rec.spool_data.color) = 7 /\ rec.spool_data.color[1] = "#"
    /\ \A i \in 2..7 : IsHexDigit(rec.spool_data.color[i])
    /\ rec.spool_data.nozzle_temp \in 0..65535
    /\ rec.spool_data.bed_temp \in 0..65535
    /\ rec.manufacturing_info.date.hi \in 0..65535
    /\ rec.manufacturing_info.date.lo \in 0..65535
    /\ Len(Utf8Encode(rec.spool_data.manufacturer)) <= 31
    /\ Len(Utf8Encode(rec.spool_data.name)) <= 31
    /\ Len(Utf8Encode(rec.manufacturing_info.serial)) <= 31

\* a float between 0 and 10000, a string without a NUL character, a colour
\* with upper-case hex digits
SmallFloat(x) == ~x.neg /\ x.den > 0 /\ x.num <= 10000 * x.den
NoNul(str) == \A i \in 1..Len(str) : str[i] # 0
UpperHex(color) == \A i \in 2..Len(color) : \E j \in 1..16 : HexUpper[j] = color[i]

RepresentableRecord(rec) ==
    /\ SmallFloat(rec.spool_data.diameter) /\ SmallFloat(rec.spool_data.density)
    /\ SmallFloat(rec.spool_data.remaining_length)
    /\ SmallFloat(rec.spool_data.remaining_weight)
    /\ NoNul(rec.spool_data.manufacturer) /\ NoNul(rec.spool_data.name)
    /\ NoNul(rec.manufacturing_info.serial)
    /\ UpperHex(rec.spool_data.color)

\* | d - x | * tden  compared with  tnum, for a decoded d and an original x
Abs(n) == IF n < 0 THEN -n ELSE n
Gap(d, x) == Abs((IF d.neg THEN -d.k ELSE d.k) * x.den
                 - (IF x.neg THEN -x.num ELSE x.num) * Pow10(d.nd))
Within(d, x, tnum, tden) ==
    d.kind = "num" /\ x.den > 0 /\ Gap(d, x) * tden <= tnum * Pow10(d.nd) * x.den
StrictlyWithin(d, x, tnum, tden) ==
    d.kind = "num" /\ x.den > 0 /\ Gap(d, x) * tden < tnum * Pow10(d.nd) * x.den

SameFields(rec, got) ==
    /\ got.spool_data.type = rec.spool_data.type
    /\ got.spool_data.color = rec.spool_data.color
    /\ got.spool_data.nozzle_temp = rec.spool_data.nozzle_temp
    /\ got.spool_data.bed_temp = rec.spool_data.bed_temp
    /\ got.spool_data.manufacturer = rec.spool_data.manufacturer
    /\ got.spool_data.name = rec.spool_data.name
    /\ got.manufacturing_info.serial = rec.manufacturing_info.serial
    /\ got.manufacturing_info.date = rec.manufacturing_info.date

\* C1 (as stated): every record that meets the four conditions on type,
\* colour, integers and string lengths, written with a non-empty UID and read
\* with the same UID, decodes to the same fields, the floats within 0.01,
\* 0.01, 0.1 and 1 of the originals.
RoundTrip ==
    ReadBack /\ ValidRecord(Written) =>
        /\ last.outcome = "ok"
        /\ SameFields(Written, last.record)
        /\ Within(last.record.spool_data.diameter, Written.spool_data.diameter, 1, 100)
        /\ Within(last.record.spool_data.density, Written.spool_data.density, 1, 100)
        /\ Within(last.record.spool_data.remaining_length,
                  Written.spool_data.remaining_length, 1, 10)
        /\ Within(last.record.spool_data.remaining_weight,
                  Written.spool_data.remaining_weight, 1, 1)

\* C1 (amended): the round trip holds for the records that also have every
\* float between 0 and 10000, no NUL character in a string and upper-case hex
\* digits in the colour; the floats then differ by less than the tolerances.
RoundTripRepresentable ==
    ReadBack /\ ValidRecord(Written) /\ RepresentableRecord(Written) =>
        /\ last.outcome = "ok"
        /\ SameFields(Written, last.record)
        /\ StrictlyWithin(last.record.spool_data.diameter,
                          Written.spool_data.diameter, 1, 100)
        /\ StrictlyWithin(last.record.spool_data.density,
                          Written.spool_data.density, 1, 100)
        /\ StrictlyWithin(last.record.spool_data.remaining_length,
                          Written.spool_data.remaining_length, 1, 10)
        /\ StrictlyWithin(last.record.spool_data.remaining_weight,
                          Written.spool_data.remaining_weight, 1, 1)

\* the record with every field at an end of its range came back
EdgeRecordReadBack ==
    /\ ReadBack /\ Written = EdgeRecord /\ last.outcome = "ok"
    /\ ValidRecord(Written) /\ RepresentableRecord(Written)
    /\ last.record.spool_data.remaining_weight.k = 5000

\* C2: an image written with a UID, with one bit flipped in bytes[4:512],
\* read with the same UID, fails the checksum check and gives no record.
TamperDetected ==
    ( /\ origin.kind = "tampered" /\ origin.pos \in 4..(CHECKSUM_OFFSET - 1)
      /\ last.op = "decode" /\ last.uid = origin.uid /\ Truthy(last.uid) )
    => last.outcome = "checksum_mismatch" /\ last.record = NoRecord

\* the top bit of byte 511 was flipped and the read failed on the checksum
LastProtectedBitFlipped ==
    /\ origin.kind = "tampered" /\ origin.pos = CHECKSUM_OFFSET - 1 /\ origin.bit = 7
    /\ last.op = "decode" /\ last.uid = origin.uid /\ Truthy(last.uid)
    /\ last.outcome = "checksum_mismatch"

\* C3: an image of 512 bytes or more whose first four bytes are not
\* AA 55 CC 33 is rejected as header-invalid, with any UID or none, and the
\* call has then neither decrypted nor verified a checksum.
HeaderGate ==
    ( /\ last.op = "decode" /\ Len(image) >= 512
      /\ Slice(image, 0, 4) # << 170, 85, 204, 51 >> )
    => /\ last.outcome = "header_invalid" /\ last.record = NoRecord
       /\ \A i \in 1..Len(last.trace) : last.trace[i] \notin { "decrypt", "checksum", "parse" }
       /\ last.key = << >>

\* a header bit of a written image was flipped and the read was rejected
HeaderBitFlipped ==
    /\ origin.kind = "tampered" /\ origin.pos < 4 /\ Len(image) = 1024
    /\ last.op = "decode" /\ last.outcome = "header_invalid"

\* C4 (as stated): decode_tag_data ends in a record or in a failure result,
\* never in an exception; an image shorter than 512 bytes is too short.
DecodeNeverRaises ==
    last.op = "decode" =>
        /\ Len(image) < 512 => last.outcome = "too_short"
        /\ last.outcome \in { "too_short", "header_invalid", "checksum_mismatch", "ok" }

\* the image with the key stream taken off again from offset 4 on
Plain(key, data) ==
    [i \in 1..Len(data) |->
        IF i - 1 < 4 THEN data[i] ELSE Xor(data[i], key[(((i - 1) - 4) % Len(key)) + 1])]

StringField(str) ==
    Slice(Utf8Encode(str), 0, 31) \o Zeros(32 - Len(Slice(Utf8Encode(str), 0, 31)))

LayoutOf(rec, plain) ==
    /\ Slice(plain, 128, 130) = PackU16(TypeId(rec.spool_data.type))
    /\ Slice(plain, 130, 133) = ColorBytes(rec.spool_data.color)
    /\ Slice(plain, 133, 137) = PackF32(rec.spool_data.diameter)
    /\ Slice(plain, 137, 139) = PackU16(rec.spool_data.nozzle_temp)
    /\ Slice(plain, 139, 141) = PackU16(rec.spool_data.bed_temp)
    /\ Slice(plain, 141, 145) = PackF32(rec.spool_data.density)
    /\ Slice(plain, 145, 149) = PackF32(rec.spool_data.remaining_length)
    /\ Slice(plain, 149, 153) = PackF32(rec.spool_data.remaining_weight)
    /\ Slice(plain, 153, 185) = StringField(rec.spool_data.manufacturer)
    /\ Slice(plain, 185, 217) = StringField(rec.spool_data.name)
    /\ Slice(plain, 256, 288) = StringField(rec.manufacturing_info.serial)
    /\ Slice(plain, 288, 292) = PackU32(rec.manufacturing_info.date)
    /\ Slice(plain, 512, 516) = crc32(Slice(plain, 0, 512))

\* C10: encode_tag_data returns 1024 bytes, the first four AA 55 CC 33 in
\* the clear; the bytes from offset 4 on, XORed with key[(i-4) mod len(key)],
\* hold every field at its offset of the layout table and, at offset 512,
\* the CRC32 of the unencrypted bytes[0:512].
TagImageLayout ==
    last.op = "encode" /\ last.outcome = "ok" =>
        /\ Len(image) = 1024
        /\ Slice(image, 0, 4) = << 170, 85, 204, 51 >>
        /\ \E plain \in { Plain(last.key, image) } :
              /\ plain[5] = Written.version /\ Slice(plain, 5, 8) = Written.flags
              /\ LayoutOf(Written, plain)

\* the record with the longest strings was written with a UID
SmallRecordWritten ==
    /\ last.op = "encode" /\ last.outcome = "ok" /\ Len(image) = 1024
    /\ Written = SmallRecord /\ last.uid = Some(Uid1)
    /\ last.key = derive_bambu_key(Uid1)

\* whether a decoded float lies in [lo, hi] (hi = -1: no upper end)
FloatInRange(d, lo_num, lo_den, hi) ==
    /\ d.kind = "num" /\ (~d.neg \/ d.k = 0)
    /\ d.k * lo_den >= lo_num * Pow10(d.nd)
    /\ hi >= 0 => d.k <= hi * Pow10(d.nd)

\* C11 (as stated): every record decode_tag_data returns has nozzle_temp in
\* [150, 350], bed_temp in [0, 150], density in [0.5, 5.0], diameter in
\* [1.0, 3.0] and a non-negative remaining length and weight.
TagRecordInRange ==
    last.op = "decode" /\ last.outcome = "ok" =>
        /\ last.record.spool_data.nozzle_temp \in 150..350
        /\ last.record.spool_data.bed_temp \in 0..150
        /\ FloatInRange(last.record.spool_data.density, 1, 2, 5)
        /\ FloatInRange(last.record.spool_data.diameter, 1, 1, 3)
        /\ FloatInRange(last.record.spool_data.remaining_length, 0, 1, -1)
        /\ FloatInRange(last.record.spool_data.remaining_weight, 0, 1, -1)

\* C11 (amended): every record decode_tag_data returns holds the numeric
\* fields as the image stores them, whatever their values: the two 16-bit
\* temperatures unchanged, the four floats rounded to 2, 3, 1 and 0 decimals.
TagRecordAsStored ==
    last.op = "decode" /\ last.outcome = "ok" =>
        \E plain \in { Plain(last.key, image) } :
            /\ last.record.spool_data.nozzle_temp = plain[138] + 256 * plain[139]
            /\ last.record.spool_data.bed_temp = plain[140] + 256 * plain[141]
            /\ last.record.spool_data.diameter
                  = RoundF(UnpackF32(Slice(plain, 133, 137)), 2)
            /\ last.record.spool_data.density
                  = RoundF(UnpackF32(Slice(plain, 141, 145)), 3)
            /\ last.record.spool_data.remaining_length
                  = RoundF(UnpackF32(Slice(plain, 145, 149)), 1)
            /\ last.record.spool_data.remaining_weight
                  = RoundF(UnpackF32(Slice(plain, 149, 153)), 0)

\* a nozzle temperature of 65535, a bed temperature of 0 and a length of
\* 9999.95 were stored and came back as 65535, 0 and 10000.0
OutOfRangeValuesReadBack ==
    /\ ReadBack /\ Written = EdgeRecord /\ last.outcome = "ok"
    /\ last.record.spool_data.nozzle_temp = 65535
    /\ last.record.spool_data.bed_temp = 0
    /\ last.record.spool_data.remaining_length.k = 100000

(***************************************************************************)
(* Specification SpecConc: two threads call decode_tag_data on one shared  *)
(* decoder without a lock.  A step is one access to self._tag_uid or       *)
(* self._xor_key together with the thread-local work that follows it; the  *)
(* interpreter may switch threads between any two steps.  _decrypt_data    *)
(* reads self._xor_key anew for every byte: the model lets the other       *)
(* thread in once inside the loop, at offset 512.                          *)
(***************************************************************************)
Threads == { 1, 2 }

\* a call decode_tag_data(raw, uid) about to start; `alone` is what the call
\* returns when no other thread touches the decoder
NewThread(raw, uid, alone) ==
    [pc |-> "test_uid", uid |-> uid, raw |-> raw,
     decrypted |-> << >>, used |-> << >>, outcome |-> "none", record |-> NoRecord,
     alone |-> [outcome |-> alone.outcome, record |-> alone.record]]

\* the image a tag with this UID carries (a tag read without a UID was
\* written for default_uid)
TagOf(r, uid) ==
    encode_tag_data(NewCodec(None), Records[r],
                    IF Truthy(uid) THEN uid ELSE Some(default_uid)).data

InitConc ==
    /\ cryptodome \in BOOLEAN
    /\ ctor \in [enc : { None }, dec : CtorArgs]
    /\ encoder = NewCodec(ctor.enc)
    /\ decoder = NewCodec(ctor.dec)
    /\ image = << >>
    /\ origin = NoOrigin
    /\ last = NoCall
    /\ payload = NoPayload /\ result = NoResult
    /\ device = NewDevice /\ auth = NewAuthorizationService /\ calls = << >>
    /\ \E u2 \in { Some(default_uid), None } :
       \E raw1 \in { TagOf(1, Some(Uid1)) }, raw2 \in { TagOf(2, u2) } :
       \E a1 \in { decode_tag_data(NewCodec(ctor.dec), raw1, Some(Uid1)) },
          a2 \in { decode_tag_data(NewCodec(ctor.dec), raw2, u2) } :
          threads = << NewThread(raw1, Some(Uid1), a1), NewThread(raw2, u2, a2) >>

Shared == << cryptodome, encoder, image, origin, last, ctor, payload, result, device, auth, calls >>

\* if tag_uid and tag_uid != self._tag_uid:
TestUid(t) ==
    /\ threads[t].pc = "test_uid"
    /\ threads' = [threads EXCEPT ![t].pc =
                      IF Truthy(threads[t].uid) /\ threads[t].uid # decoder.tag_uid
                        THEN "set_uid" ELSE "check"]
    /\ UNCHANGED << Shared, decoder >>

\* self._tag_uid = tag_uid
SetUid(t) ==
    /\ threads[t].pc = "set_uid"
    /\ decoder' = [decoder EXCEPT !.tag_uid = threads[t].uid]
    /\ threads' = [threads EXCEPT ![t].pc = "set_key"]
    /\ UNCHANGED Shared

\* self._xor_key = derive_bambu_key(tag_uid)
SetKey(t) ==
    /\ threads[t].pc = "set_key"
    /\ decoder' = [decoder EXCEPT !.xor_key = derive_bambu_key(threads[t].uid.v)]
    /\ threads' = [threads EXCEPT ![t].pc = "check"]
    /\ UNCHANGED Shared

\* the length check and the header check
Check(t) ==
    /\ threads[t].pc = "check"
    /\ threads' = [threads EXCEPT ![t] =
          IF Len(@.raw) < MIN_LENGTH
            THEN [@ EXCEPT !.pc = "done", !.outcome = "too_short"]
          ELSE IF ~verify_header(@.raw)
            THEN [@ EXCEPT !.pc = "done", !.outcome = "header_invalid"]
          ELSE [@ EXCEPT !.pc = "default"]]
    /\ UNCHANGED << Shared, decoder >>

\* if not self._tag_uid: take the key of default_uid
Default(t) ==
    /\ threads[t].pc = "default"
    /\ decoder' = DefaultKey(decoder)
    /\ threads' = [threads EXCEPT ![t].pc = "decrypt_lo"]
    /\ UNCHANGED Shared

\* _decrypt_data, bytes 4..511, with the key the instance holds now
DecryptLo(t) ==
    /\ threads[t].pc = "decrypt_lo"
    /\ threads' = [threads EXCEPT ![t] =
          [@ EXCEPT !.pc = "decrypt_hi",
                    !.decrypted = Slice(decrypt_data(decoder.xor_key, threads[t].raw),
                                        0, CHECKSUM_OFFSET),
                    !.used = << decoder.xor_key >>]]
    /\ UNCHANGED << Shared, decoder >>

\* _decrypt_data, bytes 512.., with the key the instance holds now
DecryptHi(t) ==
    /\ threads[t].pc = "decrypt_hi"
    /\ threads' = [threads EXCEPT ![t] =
          [@ EXCEPT !.pc = "verify",
                    !.decrypted = @ \o Slice(decrypt_data(decoder.xor_key, threads[t].raw),
                                             CHECKSUM_OFFSET, Len(threads[t].raw)),
                    !.used = Append(@, decoder.xor_key)]]
    /\ UNCHANGED << Shared, decoder >>

\* _verify_checksum and _parse_tag_data on the thread's own decrypted bytes
Verify(t) ==
    /\ threads[t].pc = "verify"
    /\ \E res \in { Verified(decoder, threads[t].decrypted) } :
          threads' = [threads EXCEPT ![t] =
              [@ EXCEPT !.pc = "done", !.outcome = res.outcome, !.record = res.record]]
    /\ UNCHANGED << Shared, decoder >>

NextConc ==
    \/ \E t \in Threads : TestUid(t)
    \/ \E t \in Threads : SetUid(t)
    \/ \E t \in Threads : SetKey(t)
    \/ \E t \in Threads : Check(t)
    \/ \E t \in Threads : Default(t)
    \/ \E t \in Threads : DecryptLo(t)
    \/ \E t \in Threads : DecryptHi(t)
    \/ \E t \in Threads : Verify(t)

SpecConc == InitConc /\ [][NextConc]_vars

(***************************************************************************)
(* Properties of SpecConc                                                  *)
(***************************************************************************)
\* C7 (as stated): with two different non-empty UIDs, under every
\* interleaving each call ends as it ends alone, and every key it decrypted
\* with is the key of its own UID.
ConcurrentDecodeSafe ==
    ( /\ \A t \in Threads : Truthy(threads[t].uid)
      /\ threads[1].uid # threads[2].uid )
    => \A t \in Threads :
         /\ \A i \in 1..Len(threads[t].used) :
               threads[t].used[i] = derive_bambu_key(threads[t].uid.v)
         /\ threads[t].pc = "done" =>
               /\ threads[t].outcome = threads[t].alone.outcome
               /\ threads[t].record = threads[t].alone.record


(***************************************************************************)
(* The forgiving decoder: services/nfc/decoder.py, NFCPayloadDecoder.      *)
(*                                                                         *)
(* Python values.  A value is a record [t, v] with t the name of its type. *)
(* A str is the sequence of its code points, bytes the sequence of its     *)
(* bytes, a list the sequence of its items, a dict the sequence of its     *)
(* items [k, v] in insertion order, keys being strs.  A float is           *)
(* [kind, neg, m, e]: kind "dec" is the decimal m / 1000 (the floats that  *)
(* mappings and JSON texts carry here), kind "num" the binary m * 2^e that *)
(* struct.unpack gives, kinds "inf" and "nan" the non-finite ones.         *)
(* A magnitude of Big or more is kept as Big; every range of the decoder   *)
(* ends far below it.                                                      *)
(***************************************************************************)
Big == 2000000

PyNone == [t |-> "NoneType", v |-> 0]
PyBool(b) == [t |-> "bool", v |-> b]
PyInt(n) == [t |-> "int", v |-> IF n > Big THEN Big ELSE IF n < -Big THEN -Big ELSE n]
PyStr(s) == [t |-> "str", v |-> s]
PyBytes(b) == [t |-> "bytes", v |-> b]
PyList(items) == [t |-> "list", v |-> items]
PyDict(items) == [t |-> "dict", v |-> items]
PySet == [t |-> "set", v |-> 0]
PyObject == [t |-> "object", v |-> 0]
Dec(neg, m) == [kind |-> "dec", neg |-> neg, m |-> IF m > Big * 1000 THEN Big * 1000 ELSE m, e |-> 0]
PyFloat(f) == [t |-> "float", v |-> f]
PyDec(neg, m) == PyFloat(Dec(neg, m))
PyInf(neg) == PyFloat([kind |-> "inf", neg |-> neg, m |-> 0, e |-> 0])
PyNaN == PyFloat([kind |-> "nan", neg |-> FALSE, m |-> 0, e |-> 0])

\* dict.get(key): the value of the item with this key, None without one
RECURSIVE DictGet(_, _)
DictGet(items, key) ==
    IF items = << >> THEN PyNone
    ELSE IF items[Len(items)].k = key THEN items[Len(items)].v
    ELSE DictGet(SubSeq(items, 1, Len(items) - 1), key)

HasKey(items, key) == \E i \in 1..Len(items) : items[i].k = key

\* d[key] = value
DictSet(items, key, value) ==
    IF HasKey(items, key)
      THEN [i \in 1..Len(items) |->
              IF items[i].k = key THEN [k |-> key, v |-> value] ELSE items[i]]
      ELSE Append(items, [k |-> key, v |-> value])

(***************************************************************************)
(* A float's magnitude in thousandths: [lo, exact] with                    *)
(* lo = floor(1000 * |x|), capped at Big * 1000, and exact = whether       *)
(* 1000 * |x| is that integer.  The fraction of a binary float is scaled   *)
(* in two 12-bit limbs.                                                    *)
(***************************************************************************)
Milli(f) ==
    IF f.kind = "dec" THEN [lo |-> f.m, exact |-> TRUE]
    ELSE IF f.m = 0 THEN [lo |-> 0, exact |-> TRUE]
    ELSE IF f.e >= 0 THEN [lo |-> Big * 1000, exact |-> FALSE]
    ELSE IF -f.e > 41 THEN [lo |-> 0, exact |-> FALSE]
    ELSE LET s    == -f.e
             ip   == IF s > 24 THEN 0 ELSE f.m \div (2 ^ s)
             frac == IF s > 24 THEN f.m ELSE f.m % (2 ^ s)
             A    == IF s > 12 THEN (frac \div Two12) * 1000 + ((frac % Two12) * 1000) \div Two12
                                ELSE frac * 1000
             r0   == IF s > 12 THEN ((frac % Two12) * 1000) % Two12 ELSE 0
             s1   == IF s > 12 THEN s - 12 ELSE s
         IN  IF ip >= Big THEN [lo |-> Big * 1000, exact |-> FALSE]
             ELSE [lo |-> ip * 1000 + A \div (2 ^ s1),
                   exact |-> r0 = 0 /\ A % (2 ^ s1) = 0]

IsFinite(f) == f.kind \in { "dec", "num" }
IsZero(f) == IsFinite(f) /\ f.m = 0

\* |x| >= b / 1000 and |x| <= b / 1000 for a finite float x
MagGe(f, b) == Milli(f).lo >= b
MagLe(f, b) == Milli(f).lo < b \/ (Milli(f).lo = b /\ Milli(f).exact)

\* lo / 1000 <= x and x <= hi / 1000 for a finite float x
FloatGe(f, lo) ==
    IF IsZero(f) THEN lo <= 0 ELSE IF f.neg THEN MagLe(f, -lo) ELSE MagGe(f, lo)
FloatLe(f, hi) ==
    IF IsZero(f) THEN 0 <= hi ELSE IF f.neg THEN MagGe(f, -hi) ELSE MagLe(f, hi)

\* x == y of two floats
FloatEq(f, g) ==
    /\ IsFinite(f) /\ IsFinite(g)
    /\ \/ IsZero(f) /\ IsZero(g)
       \/ f = g
       \/ f.neg = g.neg /\ Milli(f) = Milli(g) /\ Milli(f).exact

(***************************************************************************)
(* Text of values.  Characters are written by their code points:           *)
(* 32 space, 34 ", 35 #, 39 ', 43 +, 44 comma, 45 -, 46 ., 48..57 0..9,    *)
(* 58 :, 65..90 A..Z, 91 [, 92 \, 93 ], 97..122 a..z, 123 {, 125 }.        *)
(***************************************************************************)
IsDigit(c) == c >= 48 /\ c <= 57
\* str.strip() and float() drop these at both ends
IsSpace(c) == c \in { 9, 10, 11, 12, 13, 28, 29, 30, 31, 32, 133, 160 }
Lower(c) == IF c >= 65 /\ c <= 90 THEN c + 32 ELSE c
LowerStr(s) == [i \in 1..Len(s) |-> Lower(s[i])]

RECURSIVE Strip(_)
Strip(s) ==
    IF s = << >> THEN s
    ELSE IF IsSpace(s[1]) THEN Strip(Tail(s))
    ELSE IF IsSpace(s[Len(s)]) THEN Strip(SubSeq(s, 1, Len(s) - 1))
    ELSE s

\* str(n) of a natural number
RECURSIVE Digits(_)
Digits(n) == IF n < 10 THEN << 48 + n >> ELSE Digits(n \div 10) \o << 48 + (n % 10) >>

IntStr(n) == IF n < 0 THEN << 45 >> \o Digits(-n) ELSE Digits(n)

\* the fraction digits of repr(float): three digits without trailing zeros,
\* one digit at least
FracStr(m) ==
    IF m % 1000 = 0 THEN << 48 >>
    ELSE IF m % 100 = 0 THEN << 48 + (m \div 100) >>
    ELSE IF m % 10 = 0 THEN << 48 + (m \div 100), 48 + ((m \div 10) % 10) >>
    ELSE << 48 + (m \div 100), 48 + ((m \div 10) % 10), 48 + (m % 10) >>

\* repr(x) of a float
FloatStr(f) ==
    IF f.kind = "nan" THEN << 110, 97, 110 >>
    ELSE (IF f.neg THEN << 45 >> ELSE << >>) \o
         (IF f.kind = "inf" THEN << 105, 110, 102 >>
          ELSE Digits(Milli(f).lo \div 1000) \o << 46 >> \o FracStr(Milli(f).lo % 1000))

\* repr(s) of a str without backslashes and control characters
StrRepr(s) ==
    IF (\E i \in 1..Len(s) : s[i] = 39) /\ ~(\E i \in 1..Len(s) : s[i] = 34)
      THEN << 34 >> \o s \o << 34 >>
      ELSE << 39 >> \o s \o << 39 >>

\* str(value); repr(value) differs for a str only
RECURSIVE ToRepr(_)
RECURSIVE JoinItems(_, _)
ToStr(value) ==
    IF value.t = "str" THEN value.v ELSE ToRepr(value)

ToRepr(value) ==
    IF value.t = "str" THEN StrRepr(value.v)
    ELSE IF value.t = "NoneType" THEN << 78, 111, 110, 101 >>
    ELSE IF value.t = "bool"
      THEN IF value.v THEN << 84, 114, 117, 101 >> ELSE << 70, 97, 108, 115, 101 >>
    ELSE IF value.t = "int" THEN IntStr(value.v)
    ELSE IF value.t = "float" THEN FloatStr(value.v)
    ELSE IF value.t = "bytes" THEN << 98 >> \o StrRepr(value.v)
    ELSE IF value.t = "list" THEN << 91 >> \o JoinItems(value.v, FALSE) \o << 93 >>
    ELSE IF value.t = "dict" THEN << 123 >> \o JoinItems(value.v, TRUE) \o << 125 >>
    ELSE IF value.t = "set" THEN << 115, 101, 116, 40, 41 >>
    ELSE << 60, 111, 98, 106, 101, 99, 116, 62 >>

\* ", ".join of the reprs of list items, or of "key: value" of dict items
JoinItems(items, keyed) ==
    IF items = << >> THEN << >>
    ELSE (IF keyed THEN StrRepr(items[1].k) \o << 58, 32 >> \o ToRepr(items[1].v)
                   ELSE ToRepr(items[1]))
         \o (IF Len(items) = 1 THEN << >> ELSE << 44, 32 >> \o JoinItems(Tail(items), keyed))

(***************************************************************************)
(* float(value).  A str is stripped and read as "nan", "inf" or "infinity" *)
(* in any case with an optional sign, or as a decimal literal: sign,       *)
(* digits, "." and digits, of which the first three fraction digits count. *)
(* Gives [ok, exc, f].                                                     *)
(***************************************************************************)
RECURSIVE DigitsVal(_, _)
DigitsVal(s, acc) ==
    IF s = << >> THEN acc
    ELSE DigitsVal(Tail(s), IF acc * 10 + (s[1] - 48) >= Big THEN Big ELSE acc * 10 + (s[1] - 48))

AllDigits(s) == \A i \in 1..Len(s) : IsDigit(s[i])

\* the position of the first "." of s, Len(s) + 1 without one
RECURSIVE DotAt(_, _)
DotAt(s, i) == IF i > Len(s) \/ s[i] = 46 THEN i ELSE DotAt(s, i + 1)

Raise(exc) == [ok |-> FALSE, exc |-> exc, f |-> 0]
Value(f) == [ok |-> TRUE, exc |-> "", f |-> f]

ParseFloat(text) ==
    LET s    == Strip(text)
        neg  == s # << >> /\ s[1] = 45
        body == IF s # << >> /\ s[1] \in { 43, 45 } THEN Tail(s) ELSE s
        low  == LowerStr(body)
        dot  == DotAt(body, 1)
        ip   == SubSeq(body, 1, dot - 1)
        fp   == SubSeq(body, dot + 1, Len(body))
        fp3  == SubSeq(fp \o << 48, 48, 48 >>, 1, 3)
    IN  IF low = << 110, 97, 110 >> THEN Value(PyNaN.v)
        ELSE IF low \in { << 105, 110, 102 >>, << 105, 110, 102, 105, 110, 105, 116, 121 >> }
          THEN Value(PyInf(neg).v)
        ELSE IF AllDigits(ip) /\ AllDigits(fp) /\ Len(ip) + Len(fp) > 0
          THEN Value(Dec(neg, DigitsVal(ip, 0) * 1000 + DigitsVal(fp3, 0)))
        ELSE Raise("ValueError")

ToFloat(value) ==
    IF value.t = "float" THEN Value(value.v)
    ELSE IF value.t = "int" THEN Value(Dec(value.v < 0, (IF value.v < 0 THEN -value.v ELSE value.v) * 1000))
    ELSE IF value.t = "bool" THEN Value(Dec(FALSE, IF value.v THEN 1000 ELSE 0))
    ELSE IF value.t \in { "str", "bytes" } THEN ParseFloat(value.v)
    ELSE Raise("TypeError")

\* int(x) of a float: towards zero; nan and the infinities raise
ToInt(f) ==
    IF f.kind = "nan" THEN Raise("ValueError")
    ELSE IF f.kind = "inf" THEN Raise("OverflowError")
    ELSE Value(IF f.neg THEN -(Milli(f).lo \div 1000) ELSE Milli(f).lo \div 1000)

(***************************************************************************)
(* json.loads(text): gives [ok, v, i], the value and the position after    *)
(* it; ok = FALSE is json.JSONDecodeError.  Whitespace is space, tab, LF   *)
(* and CR; NaN, Infinity and -Infinity are accepted as Python accepts      *)
(* them; a later item with the key of an earlier one replaces its value.   *)
(***************************************************************************)
JsonFail == [ok |-> FALSE, v |-> PyNone, i |-> 0]
JsonOk(v, i) == [ok |-> TRUE, v |-> v, i |-> i]

RECURSIVE SkipWs(_, _)
SkipWs(s, i) == IF i <= Len(s) /\ s[i] \in { 32, 9, 10, 13 } THEN SkipWs(s, i + 1) ELSE i

\* whether the characters of word stand in s from position i on
StartsWith(s, i, word) ==
    i + Len(word) - 1 <= Len(s) /\ SubSeq(s, i, i + Len(word) - 1) = word

HexDigitVal(c) ==
    IF c >= 48 /\ c <= 57 THEN c - 48
    ELSE IF c >= 65 /\ c <= 70 THEN c - 55
    ELSE IF c >= 97 /\ c <= 102 THEN c - 87
    ELSE -1

\* the character an escape letter stands for, -1 for none
Unescape(c) ==
    IF c \in { 34, 92, 47 } THEN c
    ELSE IF c = 98 THEN 8 ELSE IF c = 102 THEN 12 ELSE IF c = 110 THEN 10
    ELSE IF c = 114 THEN 13 ELSE IF c = 116 THEN 9 ELSE -1

\* the first position from i on that holds a quote, a backslash or a
\* control character, Len(s) + 1 without one
RunEnd(s, i) ==
    CHOOSE j \in i..(Len(s) + 1) :
        /\ j = Len(s) + 1 \/ s[j] \in { 34, 92 } \/ s[j] < 32
        /\ \A k \in i..(j - 1) : ~(s[k] \in { 34, 92 } \/ s[k] < 32)

\* the rest of a string literal whose opening quote precedes position i
RECURSIVE JsonString(_, _, _)
JsonStringAt(s, i, j, acc) ==
    IF j > Len(s) \/ s[j] < 32 THEN JsonFail
    ELSE IF s[j] = 34 THEN JsonOk(PyStr(acc \o SubSeq(s, i, j - 1)), j + 1)
    ELSE IF j + 1 > Len(s) THEN JsonFail
    ELSE IF s[j + 1] = 117
      THEN IF j + 5 <= Len(s) /\ \A h \in (j + 2)..(j + 5) : HexDigitVal(s[h]) >= 0
             THEN JsonString(s, j + 6,
                      acc \o SubSeq(s, i, j - 1) \o
                      << HexDigitVal(s[j + 2]) * 4096 + HexDigitVal(s[j + 3]) * 256
                         + HexDigitVal(s[j + 4]) * 16 + HexDigitVal(s[j + 5]) >>)
             ELSE JsonFail
    ELSE IF Unescape(s[j + 1]) >= 0
      THEN JsonString(s, j + 2, acc \o SubSeq(s, i, j - 1) \o << Unescape(s[j + 1]) >>)
    ELSE JsonFail

JsonString(s, i, acc) == JsonStringAt(s, i, RunEnd(s, i), acc)

\* the position after the digits that start at i
RECURSIVE DigitsEnd(_, _)
DigitsEnd(s, i) == IF i <= Len(s) /\ IsDigit(s[i]) THEN DigitsEnd(s, i + 1) ELSE i

\* m * 10^n for a natural n, m / 10^(-n) for a negative one
RECURSIVE Scale10(_, _)
Scale10(m, n) ==
    IF n = 0 \/ m = 0 THEN m
    ELSE IF n > 0 THEN (IF m >= Big * 100 THEN Big * 1000 ELSE Scale10(m * 10, n - 1))
    ELSE Scale10(m \div 10, n + 1)

\* a number that starts at i: -?(0|[1-9]\d*)(\.\d+)?([eE][-+]?\d+)? ;
\* an int without fraction and exponent, a float otherwise
JsonNumber(s, i) ==
    LET neg  == s[i] = 45
        i0   == IF neg THEN i + 1 ELSE i
        i1   == IF i0 <= Len(s) /\ s[i0] = 48 THEN i0 + 1 ELSE DigitsEnd(s, i0)
        frac == i1 + 1 <= Len(s) /\ s[i1] = 46 /\ IsDigit(s[i1 + 1])
        i2   == IF frac THEN DigitsEnd(s, i1 + 1) ELSE i1
        sgn  == i2 + 1 <= Len(s) /\ s[i2] \in { 69, 101 } /\ s[i2 + 1] \in { 43, 45 }
        e0   == IF sgn THEN i2 + 2 ELSE i2 + 1
        exp  == i2 <= Len(s) /\ s[i2] \in { 69, 101 } /\ e0 <= Len(s) /\ IsDigit(s[e0])
        i3   == IF exp THEN DigitsEnd(s, e0) ELSE i2
        ip   == DigitsVal(SubSeq(s, i0, i1 - 1), 0)
        fp3  == IF frac THEN DigitsVal(SubSeq(SubSeq(s, i1 + 1, i2 - 1) \o << 48, 48, 48 >>, 1, 3), 0)
                        ELSE 0
        n    == IF exp THEN DigitsVal(SubSeq(s, e0, i3 - 1), 0) ELSE 0
        n10  == IF n > 12 THEN 12 ELSE n
    IN  IF i1 = i0 THEN JsonFail
        ELSE IF ~frac /\ ~exp THEN JsonOk(PyInt(IF neg THEN -ip ELSE ip), i3)
        ELSE JsonOk(PyDec(neg, Scale10(ip * 1000 + fp3, IF sgn /\ s[i2 + 1] = 45 THEN -n10 ELSE n10)), i3)

RECURSIVE JsonValue(_, _)
RECURSIVE JsonItems(_, _, _)
RECURSIVE JsonMembers(_, _, _)

\* after a value of an array: "]" ends it, "," brings the next value
JsonItemsNext(s, r, acc) ==
    IF ~r.ok THEN JsonFail
    ELSE IF SkipWs(s, r.i) > Len(s) THEN JsonFail
    ELSE IF s[SkipWs(s, r.i)] = 93 THEN JsonOk(PyList(Append(acc, r.v)), SkipWs(s, r.i) + 1)
    ELSE IF s[SkipWs(s, r.i)] = 44 THEN JsonItems(s, SkipWs(s, SkipWs(s, r.i) + 1), Append(acc, r.v))
    ELSE JsonFail

JsonItems(s, i, acc) == JsonItemsNext(s, JsonValue(s, i), acc)

\* after the value of a member: "}" ends the object, "," brings the next
JsonMembersNext(s, key, r, acc) ==
    IF ~r.ok THEN JsonFail
    ELSE IF SkipWs(s, r.i) > Len(s) THEN JsonFail
    ELSE IF s[SkipWs(s, r.i)] = 125
      THEN JsonOk(PyDict(DictSet(acc, key, r.v)), SkipWs(s, r.i) + 1)
    ELSE IF s[SkipWs(s, r.i)] = 44
      THEN JsonMembers(s, SkipWs(s, SkipWs(s, r.i) + 1), DictSet(acc, key, r.v))
    ELSE JsonFail

\* after the key of a member: ":" and the value
JsonMemberValue(s, k, acc) ==
    IF ~k.ok THEN JsonFail
    ELSE IF SkipWs(s, k.i) > Len(s) \/ s[SkipWs(s, k.i)] # 58 THEN JsonFail
    ELSE JsonMembersNext(s, k.v.v, JsonValue(s, SkipWs(s, SkipWs(s, k.i) + 1)), acc)

JsonMembers(s, i, acc) ==
    IF i > Len(s) \/ s[i] # 34 THEN JsonFail
    ELSE JsonMemberValue(s, JsonString(s, i + 1, << >>), acc)

JsonValue(s, i) ==
    IF i > Len(s) THEN JsonFail
    ELSE IF s[i] = 34 THEN JsonString(s, i + 1, << >>)
    ELSE IF s[i] = 123
      THEN IF SkipWs(s, i + 1) <= Len(s) /\ s[SkipWs(s, i + 1)] = 125
             THEN JsonOk(PyDict(<< >>), SkipWs(s, i + 1) + 1)
             ELSE JsonMembers(s, SkipWs(s, i + 1), << >>)
    ELSE IF s[i] = 91
      THEN IF SkipWs(s, i + 1) <= Len(s) /\ s[SkipWs(s, i + 1)] = 93
             THEN JsonOk(PyList(<< >>), SkipWs(s, i + 1) + 1)
             ELSE JsonItems(s, SkipWs(s, i + 1), << >>)
    ELSE IF StartsWith(s, i, << 110, 117, 108, 108 >>) THEN JsonOk(PyNone, i + 4)
    ELSE IF StartsWith(s, i, << 116, 114, 117, 101 >>) THEN JsonOk(PyBool(TRUE), i + 4)
    ELSE IF StartsWith(s, i, << 102, 97, 108, 115, 101 >>) THEN JsonOk(PyBool(FALSE), i + 5)
    ELSE IF IsDigit(s[i]) \/ (s[i] = 45 /\ i + 1 <= Len(s) /\ IsDigit(s[i + 1]))
      THEN JsonNumber(s, i)
    ELSE IF StartsWith(s, i, << 78, 97, 78 >>) THEN JsonOk(PyNaN, i + 3)
    ELSE IF StartsWith(s, i, << 73, 110, 102, 105, 110, 105, 116, 121 >>)
      THEN JsonOk(PyInf(FALSE), i + 8)
    ELSE IF StartsWith(s, i, << 45, 73, 110, 102, 105, 110, 105, 116, 121 >>)
      THEN JsonOk(PyInf(TRUE), i + 9)
    ELSE JsonFail

\* json.loads
json_loads(text) ==
    IF ~JsonValue(text, SkipWs(text, 1)).ok THEN JsonFail
    ELSE IF SkipWs(text, JsonValue(text, SkipWs(text, 1)).i) <= Len(text) THEN JsonFail
    ELSE JsonValue(text, SkipWs(text, 1))

(***************************************************************************)
(* NFCPayloadDecoder                                                       *)
(***************************************************************************)
\* the keys of EXPECTED_FIELDS in their order
FieldNames ==
    << "name", "type", "color", "manufacturer", "density", "diameter",
       "nozzle_temp", "bed_temp", "remaining_length", "remaining_weight" >>
Fields == { FieldNames[i] : i \in 1..Len(FieldNames) }

\* a field name as a Python str
Key(field) ==
    CASE field = "name" -> << 110, 97, 109, 101 >>
      [] field = "type" -> << 116, 121, 112, 101 >>
      [] field = "color" -> << 99, 111, 108, 111, 114 >>
      [] field = "manufacturer" -> << 109, 97, 110, 117, 102, 97, 99, 116, 117, 114, 101, 114 >>
      [] field = "density" -> << 100, 101, 110, 115, 105, 116, 121 >>
      [] field = "diameter" -> << 100, 105, 97, 109, 101, 116, 101, 114 >>
      [] field = "nozzle_temp" -> << 110, 111, 122, 122, 108, 101, 95, 116, 101, 109, 112 >>
      [] field = "bed_temp" -> << 98, 101, 100, 95, 116, 101, 109, 112 >>
      [] field = "remaining_length" -> << 114, 101, 109, 97, 105, 110, 105, 110, 103, 95, 108, 101, 110, 103, 116, 104 >>
      [] field = "remaining_weight" -> << 114, 101, 109, 97, 105, 110, 105, 110, 103, 95, 119, 101, 105, 103, 104, 116 >>

StrSpec(max_length) == [type |-> "str", max_length |-> max_length, min |-> 0, max |-> 0]
\* min and max in thousandths
NumSpec(type, min, max) == [type |-> type, max_length |-> 0, min |-> min, max |-> max]

EXPECTED_FIELDS ==
    [name |-> StrSpec(64), type |-> StrSpec(16), color |-> StrSpec(7),
     manufacturer |-> StrSpec(32),
     density |-> NumSpec("float", 500, 5000),
     diameter |-> NumSpec("float", 1000, 3000),
     nozzle_temp |-> NumSpec("int", 150000, 350000),
     bed_temp |-> NumSpec("int", 0, 150000),
     remaining_length |-> NumSpec("float", 0, 10000000),
     remaining_weight |-> NumSpec("float", 0, 5000000)]

\* 'Unknown Filament', 'PLA', '#FFFFFF', 'Unknown', 1.24, 1.75, 200, 60, 0, 0
DEFAULT_VALUES ==
    [name |-> PyStr(<< 85, 110, 107, 110, 111, 119, 110, 32, 70, 105, 108, 97, 109, 101, 110, 116 >>),
     type |-> PyStr(<< 80, 76, 65 >>),
     color |-> PyStr(<< 35, 70, 70, 70, 70, 70, 70 >>),
     manufacturer |-> PyStr(<< 85, 110, 107, 110, 111, 119, 110 >>),
     density |-> PyDec(FALSE, 1240), diameter |-> PyDec(FALSE, 1750),
     nozzle_temp |-> PyInt(200), bed_temp |-> PyInt(60),
     remaining_length |-> PyInt(0), remaining_weight |-> PyInt(0)]

\* a == b of two validated field values
PyEq(a, b) ==
    IF a.t = "str" \/ b.t = "str" THEN a.t = b.t /\ a.v = b.v
    ELSE FloatEq(ToFloat(a).f, ToFloat(b).f)

\* the str branch of _validate_field
validate_str(value, spec) ==
    Value(PyStr(IF Len(ToStr(value)) > spec.max_length
                  THEN SubSeq(ToStr(value), 1, spec.max_length)
                  ELSE ToStr(value)))

\* an int branch that returns the value without the range check
validate_int_unchecked(f, spec) ==
    IF ~f.ok THEN Raise("ValueError")
    ELSE IF ~ToInt(f.f).ok THEN Raise("ValueError")
    ELSE Value(PyInt(ToInt(f.f).f))

\* the int branch; f is float(value)
validate_int(f, spec) ==
    IF ~f.ok THEN Raise("ValueError")
    ELSE IF ~ToInt(f.f).ok
      THEN Raise(IF ToInt(f.f).exc = "OverflowError" THEN "OverflowError" ELSE "ValueError")
    ELSE IF ~(spec.min <= ToInt(f.f).f * 1000 /\ ToInt(f.f).f * 1000 <= spec.max)
      THEN Raise("ValueError")
    ELSE Value(PyInt(ToInt(f.f).f))

\* the float branch; f is float(value)
validate_float(f, spec) ==
    IF ~f.ok THEN Raise("ValueError")
    ELSE IF ~IsFinite(f.f) THEN Raise("ValueError")
    ELSE IF ~(FloatGe(f.f, spec.min) /\ FloatLe(f.f, spec.max)) THEN Raise("ValueError")
    ELSE Value(PyFloat(f.f))

\* _validate_field: [ok, exc, f], f the validated value
validate_field(field_name, value, spec) ==
    IF value.t = "NoneType" THEN Raise("ValueError")
    ELSE IF spec.type = "str" THEN validate_str(value, spec)
    ELSE IF spec.type = "int" THEN validate_int(ToFloat(value), spec)
    ELSE validate_float(ToFloat(value), spec)

\* how a call ends: a record returned, or an exception of class exc raised
\* with a message of the kind msg
Returned(rec) == [kind |-> "record", exc |-> "", msg |-> "", rec |-> rec]
Raised(exc, msg) == [kind |-> "raise", exc |-> exc, msg |-> msg, rec |-> << >>]

\* the value the loop of _decode_dict_payload stores for a field
FieldResult(items, field) ==
    IF validate_field(field, DictGet(items, Key(field)), EXPECTED_FIELDS[field]).ok
      THEN validate_field(field, DictGet(items, Key(field)), EXPECTED_FIELDS[field]).f
      ELSE DEFAULT_VALUES[field]

\* "Check if we have any valid data": the fields that differ from their default
ValidFields(rec) == { field \in Fields : ~PyEq(rec[field], DEFAULT_VALUES[field]) }

\* the keys of the payload that are known fields
ProvidedFields(items) == { field \in Fields : HasKey(items, Key(field)) }

\* a variant that rejects every non-empty mapping without a valid field,
\* also one that holds unknown keys only
RejectsUnknownOnly(items, rec) == ValidFields(rec) = { } /\ Len(items) > 0

\* a variant that rejects every mapping without a valid field, also {}
RejectsEmptyToo(items, rec) ==
    ValidFields(rec) = { } /\ (Len(items) = 0 \/ ProvidedFields(items) # { })

\* "Only fail if absolutely no useful data was extracted"
RejectsAllDefaults(items, rec) ==
    ValidFields(rec) = { } /\ Len(items) > 0 /\ ProvidedFields(items) # { }

\* _decode_dict_payload
decode_dict_payload(p) ==
    IF p.t \in { "NoneType", "bool", "int", "float", "object" }
      THEN Raised("TypeError", "no len()")
    ELSE IF p.t # "dict" THEN Raised("NFCDecodingError", "Payload is not a dictionary")
    ELSE IF \E rec \in { [field \in Fields |-> FieldResult(p.v, field)] } :
               RejectsAllDefaults(p.v, rec)
      THEN Raised("NFCDecodingError", "No valid fields found in payload")
    ELSE Returned([field \in Fields |-> FieldResult(p.v, field)])

\* bytes.decode('utf-8', errors='ignore') of bytes that do not hold an
\* encoded U+FFFD: the decoding without the replacement characters
Utf8DecodeIgnore(b) ==
    LET NotReplaced(c) == c # ReplacementChar IN SelectSeq(Utf8Decode(b), NotReplaced)

\* str.rstrip('\x00')
RECURSIVE RStripNul(_)
RStripNul(s) ==
    IF s # << >> /\ s[Len(s)] = 0 THEN RStripNul(SubSeq(s, 1, Len(s) - 1)) ELSE s

\* str.split('\x00')[0]
RECURSIVE FirstPart(_)
FirstPart(s) == IF s = << >> \/ s[1] = 0 THEN << >> ELSE << s[1] >> \o FirstPart(Tail(s))

\* the temperatures of the bytes path: nozzle_temp first, bed_temp only
\* when nozzle_temp was valid
WithTemps(rec, p) ==
    LET nozzle == validate_field("nozzle_temp", PyInt(UnpackU16(Slice(p, 4, 6))),
                                 EXPECTED_FIELDS["nozzle_temp"])
        bed    == validate_field("bed_temp", PyInt(UnpackU16(Slice(p, 6, 8))),
                                 EXPECTED_FIELDS["bed_temp"])
    IN  IF ~nozzle.ok THEN rec
        ELSE IF ~bed.ok THEN [rec EXCEPT !["nozzle_temp"] = nozzle.f]
        ELSE [rec EXCEPT !["nozzle_temp"] = nozzle.f, !["bed_temp"] = bed.f]

\* the material data: density first, diameter only when density was valid
WithMaterial(rec, p) ==
    LET density  == validate_field("density", PyFloat(UnpackF32(Slice(p, 8, 12))),
                                   EXPECTED_FIELDS["density"])
        diameter == validate_field("diameter", PyFloat(UnpackF32(Slice(p, 12, 16))),
                                   EXPECTED_FIELDS["diameter"])
    IN  IF Len(p) < 16 \/ ~density.ok THEN rec
        ELSE IF ~diameter.ok THEN [rec EXCEPT !["density"] = density.f]
        ELSE [rec EXCEPT !["density"] = density.f, !["diameter"] = diameter.f]

\* the string data: the name is what precedes the first NUL after offset 16
WithName(rec, p) ==
    LET string_data == RStripNul(Utf8DecodeIgnore(Slice(p, 16, Len(p))))
    IN  IF Len(p) > 16 /\ FirstPart(string_data) # << >>
          THEN [rec EXCEPT !["name"] =
                   validate_field("name", PyStr(FirstPart(string_data)),
                                  EXPECTED_FIELDS["name"]).f]
          ELSE rec

\* a bytes path that asks for the magic 'BLMF' in the first four bytes
decode_bytes_payload_magic(p) ==
    IF Len(p) = 0 THEN Raised("NFCDecodingError", "Empty binary payload")
    ELSE IF Len(p) < 10 \/ Slice(p, 0, 4) # << 66, 76, 77, 70 >>
      THEN Raised("NFCDecodingError", "Binary decoding failed")
    ELSE Returned(WithName(WithMaterial(WithTemps(DEFAULT_VALUES, p), p), p))

\* _decode_bytes_payload
decode_bytes_payload(p) ==
    IF Len(p) = 0 THEN Raised("NFCDecodingError", "Empty binary payload")
    ELSE IF Len(p) < 10 THEN Raised("NFCDecodingError", "Binary decoding failed")
    ELSE Returned(WithName(WithMaterial(WithTemps(DEFAULT_VALUES, p), p), p))

\* str.replace(old, '') for a one-character old and for '0x'
Remove(s, old) ==
    LET Gone(i) ==
            IF Len(old) = 1 THEN s[i] = old[1]
            ELSE \/ s[i] = old[1] /\ i < Len(s) /\ s[i + 1] = old[2]
                 \/ s[i] = old[2] /\ i > 1 /\ s[i - 1] = old[1]
        Kept(c) == c >= 0
    IN  SelectSeq([i \in 1..Len(s) |-> IF Gone(i) THEN -1 ELSE s[i]], Kept)

\* payload.replace('0x', '').replace(' ', '').replace('-', '')
CleanHex(s) == Remove(Remove(Remove(s, << 48, 120 >>), << 32 >>), << 45 >>)

\* bytes.fromhex: ASCII whitespace before a byte is skipped, every byte is
\* two adjacent hex digits; [ok, v]
RECURSIVE fromhex(_, _)
fromhex(s, acc) ==
    IF s = << >> THEN [ok |-> TRUE, v |-> acc]
    ELSE IF s[1] \in { 9, 10, 11, 12, 13, 32 } THEN fromhex(Tail(s), acc)
    ELSE IF Len(s) < 2 \/ HexDigitVal(s[1]) < 0 \/ HexDigitVal(s[2]) < 0
      THEN [ok |-> FALSE, v |-> << >>]
    ELSE fromhex(SubSeq(s, 3, Len(s)), Append(acc, HexDigitVal(s[1]) * 16 + HexDigitVal(s[2])))

\* the hex branch of _decode_string_payload
decode_hex(clean) ==
    IF Len(clean) % 2 # 0 THEN Raised("NFCDecodingError", "Invalid hex string format")
    ELSE IF ~fromhex(clean, << >>).ok
      THEN Raised("NFCDecodingError", "Invalid hex string format")
    ELSE decode_bytes_payload(fromhex(clean, << >>).v)

\* _decode_string_payload
decode_string_payload(p) ==
    IF p = << >> THEN Raised("NFCDecodingError", "Invalid string payload")
    ELSE IF json_loads(Strip(p)).ok THEN decode_dict_payload(json_loads(Strip(p)).v)
    ELSE decode_hex(CleanHex(Strip(p)))

\* the classes that "except Exception" catches
ExceptionClasses ==
    { "TypeError", "ValueError", "OverflowError", "struct.error", "NFCDecodingError" }

\* a decode_payload without its "except Exception" handler
Unhandled(r) == r

\* the handlers of decode_payload
Handled(r) ==
    IF r.kind # "raise" \/ r.exc = "NFCDecodingError" THEN r
    ELSE IF r.exc \in ExceptionClasses
      THEN Raised("NFCDecodingError", "Unexpected decoding error")
    ELSE r

\* decode_payload
decode_payload(p) ==
    Handled(IF p.t = "NoneType" THEN Raised("NFCDecodingError", "Payload is None")
            ELSE IF p.t = "dict" THEN decode_dict_payload(p)
            ELSE IF p.t = "str" THEN decode_string_payload(p.v)
            ELSE IF p.t = "bytes" THEN decode_bytes_payload(p.v)
            ELSE Raised("NFCDecodingError", "Unsupported payload type"))

(***************************************************************************)
(* Payloads handed to decode_payload.  The comment above a value is its    *)
(* Python literal.                                                         *)
(***************************************************************************)
\* raw values of the fields of a mapping
Raw_name ==
    << \* 'Valid Name'
       PyStr(<< 86, 97, 108, 105, 100, 32, 78, 97, 109, 101 >>),
       \* 'Unknown Filament'
       PyStr(<< 85, 110, 107, 110, 111, 119, 110, 32, 70, 105, 108, 97, 109,
       101, 110, 116 >>),
       \* 'xxxxxxxxxxxxxxxxxxxxxxxxxxx ... xxxxxxxxxxxxxxxxxxxxxxx' (65)
       PyStr(<< 120, 120, 120, 120, 120, 120, 120, 120, 120, 120, 120, 120,
       120, 120, 120, 120, 120, 120, 120, 120, 120, 120, 120, 120, 120, 120,
       120, 120, 120, 120, 120, 120, 120, 120, 120, 120, 120, 120, 120, 120,
       120, 120, 120, 120, 120, 120, 120, 120, 120, 120, 120, 120, 120, 120,
       120, 120, 120, 120, 120, 120, 120, 120, 120, 120, 120 >>),
       \* 'nnnnnnnnnnnnnnnnnnnnnnnnnnn ... nnnnnnnnnnnnnnnnnnnnnnn' (64)
       PyStr(<< 110, 110, 110, 110, 110, 110, 110, 110, 110, 110, 110, 110,
       110, 110, 110, 110, 110, 110, 110, 110, 110, 110, 110, 110, 110, 110,
       110, 110, 110, 110, 110, 110, 110, 110, 110, 110, 110, 110, 110, 110,
       110, 110, 110, 110, 110, 110, 110, 110, 110, 110, 110, 110, 110, 110,
       110, 110, 110, 110, 110, 110, 110, 110, 110, 110 >>),
       \* None
       PyNone,
       \* ''
       PyStr(<< >>),
       \* 12345
       PyInt(12345),
       \* ['PLA', 'ABS']
       PyList(<< PyStr(<< 80, 76, 65 >>), PyStr(<< 65, 66, 83 >>) >>),
       \* 1.5
       PyDec(FALSE, 1500),
       \* True
       PyBool(TRUE) >>

Raw_type ==
    << \* 'PETG'
       PyStr(<< 80, 69, 84, 71 >>),
       \* 'PLA'
       PyStr(<< 80, 76, 65 >>),
       \* 'SUPER_LONG_FILAMENT_TYPE'
       PyStr(<< 83, 85, 80, 69, 82, 95, 76, 79, 78, 71, 95, 70, 73, 76, 65, 77,
       69, 78, 84, 95, 84, 89, 80, 69 >>),
       \* '0123456789abcdef'
       PyStr(<< 48, 49, 50, 51, 52, 53, 54, 55, 56, 57, 97, 98, 99, 100, 101,
       102 >>),
       \* None
       PyNone,
       \* ''
       PyStr(<< >>),
       \* 12345
       PyInt(12345),
       \* ['PLA', 'ABS']
       PyList(<< PyStr(<< 80, 76, 65 >>), PyStr(<< 65, 66, 83 >>) >>),
       \* 1.5
       PyDec(FALSE, 1500),
       \* True
       PyBool(TRUE) >>

Raw_color ==
    << \* '#1E88E5'
       PyStr(<< 35, 49, 69, 56, 56, 69, 53 >>),
       \* '#FFFFFF'
       PyStr(<< 35, 70, 70, 70, 70, 70, 70 >>),
       \* '#FFFFFF00'
       PyStr(<< 35, 70, 70, 70, 70, 70, 70, 48, 48 >>),
       \* 'red'
       PyStr(<< 114, 101, 100 >>),
       \* '#GGGGGG'
       PyStr(<< 35, 71, 71, 71, 71, 71, 71 >>),
       \* '1E88E5FF'
       PyStr(<< 49, 69, 56, 56, 69, 53, 70, 70 >>),
       \* None
       PyNone,
       \* ''
       PyStr(<< >>),
       \* 12345
       PyInt(12345),
       \* ['PLA', 'ABS']
       PyList(<< PyStr(<< 80, 76, 65 >>), PyStr(<< 65, 66, 83 >>) >>),
       \* 1.5
       PyDec(FALSE, 1500),
       \* True
       PyBool(TRUE) >>

Raw_manufacturer ==
    << \* 'Bambu Lab'
       PyStr(<< 66, 97, 109, 98, 117, 32, 76, 97, 98 >>),
       \* 'Unknown'
       PyStr(<< 85, 110, 107, 110, 111, 119, 110 >>),
       \* 'AAAAAAAAAAAAAAAAAAAAAAAAAAAAAAAAA'
       PyStr(<< 65, 65, 65, 65, 65, 65, 65, 65, 65, 65, 65, 65, 65, 65, 65, 65,
       65, 65, 65, 65, 65, 65, 65, 65, 65, 65, 65, 65, 65, 65, 65, 65, 65 >>),
       \* 'Bämbü®'
       PyStr(<< 66, 228, 109, 98, 252, 174 >>),
       \* None
       PyNone,
       \* ''
       PyStr(<< >>),
       \* 12345
       PyInt(12345),
       \* ['PLA', 'ABS']
       PyList(<< PyStr(<< 80, 76, 65 >>), PyStr(<< 65, 66, 83 >>) >>),
       \* 1.5
       PyDec(FALSE, 1500),
       \* True
       PyBool(TRUE) >>

Raw_density ==
    << \* 1.3
       PyDec(FALSE, 1300),
       \* 1.24
       PyDec(FALSE, 1240),
       \* 0.5
       PyDec(FALSE, 500),
       \* 5.0
       PyDec(FALSE, 5000),
       \* 0.499
       PyDec(FALSE, 499),
       \* 5.001
       PyDec(FALSE, 5001),
       \* 50
       PyInt(50),
       \* ' 1.5 '
       PyStr(<< 32, 49, 46, 53, 32 >>),
       \* '1.24'
       PyStr(<< 49, 46, 50, 52 >>),
       \* -1.3
       PyDec(TRUE, 1300),
       \* None
       PyNone,
       \* 'very_hot'
       PyStr(<< 118, 101, 114, 121, 95, 104, 111, 116 >>),
       \* nan
       PyNaN,
       \* inf
       PyInf(FALSE),
       \* -inf
       PyInf(TRUE),
       \* 'nan'
       PyStr(<< 110, 97, 110 >>),
       \* {'value': 1.24}
       PyDict(<< [k |-> << 118, 97, 108, 117, 101 >>, v |-> PyDec(FALSE,
       1240)] >>),
       \* [1]
       PyList(<< PyInt(1) >>),
       \* True
       PyBool(TRUE) >>

Raw_diameter ==
    << \* 2.85
       PyDec(FALSE, 2850),
       \* 1.75
       PyDec(FALSE, 1750),
       \* 1.0
       PyDec(FALSE, 1000),
       \* 3.0
       PyDec(FALSE, 3000),
       \* 0.1
       PyDec(FALSE, 100),
       \* 3.001
       PyDec(FALSE, 3001),
       \* 3
       PyInt(3),
       \* '2.85'
       PyStr(<< 50, 46, 56, 53 >>),
       \* '1.75'
       PyStr(<< 49, 46, 55, 53 >>),
       \* None
       PyNone,
       \* 'very_hot'
       PyStr(<< 118, 101, 114, 121, 95, 104, 111, 116 >>),
       \* nan
       PyNaN,
       \* inf
       PyInf(FALSE),
       \* -inf
       PyInf(TRUE),
       \* 'nan'
       PyStr(<< 110, 97, 110 >>),
       \* {'value': 1.24}
       PyDict(<< [k |-> << 118, 97, 108, 117, 101 >>, v |-> PyDec(FALSE,
       1240)] >>),
       \* [1]
       PyList(<< PyInt(1) >>),
       \* True
       PyBool(TRUE) >>

Raw_nozzle_temp ==
    << \* 220
       PyInt(220),
       \* 200
       PyInt(200),
       \* 150
       PyInt(150),
       \* 350
       PyInt(350),
       \* 149
       PyInt(149),
       \* 351
       PyInt(351),
       \* 1000
       PyInt(1000),
       \* 350.9
       PyDec(FALSE, 350900),
       \* 149.9
       PyDec(FALSE, 149900),
       \* 220.7
       PyDec(FALSE, 220700),
       \* '220'
       PyStr(<< 50, 50, 48 >>),
       \* '200.0'
       PyStr(<< 50, 48, 48, 46, 48 >>),
       \* -220
       PyInt(-220),
       \* None
       PyNone,
       \* 'very_hot'
       PyStr(<< 118, 101, 114, 121, 95, 104, 111, 116 >>),
       \* nan
       PyNaN,
       \* inf
       PyInf(FALSE),
       \* -inf
       PyInf(TRUE),
       \* 'nan'
       PyStr(<< 110, 97, 110 >>),
       \* {'value': 1.24}
       PyDict(<< [k |-> << 118, 97, 108, 117, 101 >>, v |-> PyDec(FALSE,
       1240)] >>),
       \* [1]
       PyList(<< PyInt(1) >>),
       \* True
       PyBool(TRUE) >>

Raw_bed_temp ==
    << \* 80
       PyInt(80),
       \* 60
       PyInt(60),
       \* 0
       PyInt(0),
       \* 150
       PyInt(150),
       \* -1
       PyInt(-1),
       \* 151
       PyInt(151),
       \* -50
       PyInt(-50),
       \* -0.5
       PyDec(TRUE, 500),
       \* 150.5
       PyDec(FALSE, 150500),
       \* '80'
       PyStr(<< 56, 48 >>),
       \* '-0.9'
       PyStr(<< 45, 48, 46, 57 >>),
       \* None
       PyNone,
       \* 'very_hot'
       PyStr(<< 118, 101, 114, 121, 95, 104, 111, 116 >>),
       \* nan
       PyNaN,
       \* inf
       PyInf(FALSE),
       \* -inf
       PyInf(TRUE),
       \* 'nan'
       PyStr(<< 110, 97, 110 >>),
       \* {'value': 1.24}
       PyDict(<< [k |-> << 118, 97, 108, 117, 101 >>, v |-> PyDec(FALSE,
       1240)] >>),
       \* [1]
       PyList(<< PyInt(1) >>),
       \* True
       PyBool(TRUE) >>

Raw_remaining_length ==
    << \* 240.0
       PyDec(FALSE, 240000),
       \* 0
       PyInt(0),
       \* 0.0
       PyDec(FALSE, 0),
       \* 10000
       PyInt(10000),
       \* 10000.001
       PyDec(FALSE, 10000001),
       \* -0.001
       PyDec(TRUE, 1),
       \* -100
       PyInt(-100),
       \* '240.5'
       PyStr(<< 50, 52, 48, 46, 53 >>),
       \* 1999999999
       PyInt(1999999999),
       \* None
       PyNone,
       \* 'very_hot'
       PyStr(<< 118, 101, 114, 121, 95, 104, 111, 116 >>),
       \* nan
       PyNaN,
       \* inf
       PyInf(FALSE),
       \* -inf
       PyInf(TRUE),
       \* 'nan'
       PyStr(<< 110, 97, 110 >>),
       \* {'value': 1.24}
       PyDict(<< [k |-> << 118, 97, 108, 117, 101 >>, v |-> PyDec(FALSE,
       1240)] >>),
       \* [1]
       PyList(<< PyInt(1) >>),
       \* True
       PyBool(TRUE) >>

Raw_remaining_weight ==
    << \* 1000.0
       PyDec(FALSE, 1000000),
       \* 0
       PyInt(0),
       \* 5000
       PyInt(5000),
       \* 5000.001
       PyDec(FALSE, 5000001),
       \* -100
       PyInt(-100),
       \* '0'
       PyStr(<< 48 >>),
       \* 750
       PyInt(750),
       \* None
       PyNone,
       \* 'very_hot'
       PyStr(<< 118, 101, 114, 121, 95, 104, 111, 116 >>),
       \* nan
       PyNaN,
       \* inf
       PyInf(FALSE),
       \* -inf
       PyInf(TRUE),
       \* 'nan'
       PyStr(<< 110, 97, 110 >>),
       \* {'value': 1.24}
       PyDict(<< [k |-> << 118, 97, 108, 117, 101 >>, v |-> PyDec(FALSE,
       1240)] >>),
       \* [1]
       PyList(<< PyInt(1) >>),
       \* True
       PyBool(TRUE) >>

RawValues ==
    [name |-> Raw_name,
     type |-> Raw_type,
     color |-> Raw_color,
     manufacturer |-> Raw_manufacturer,
     density |-> Raw_density,
     diameter |-> Raw_diameter,
     nozzle_temp |-> Raw_nozzle_temp,
     bed_temp |-> Raw_bed_temp,
     remaining_length |-> Raw_remaining_length,
     remaining_weight |-> Raw_remaining_weight]

\* a second item of a mapping: ('name', 'Valid Name'), ('nozzle_temp', 220),
\* ('nozzle_temp', 200), ('color', '#FFFFFF0')
SecondItems ==
    << [k |-> Key("name"), v |-> PyStr(<< 86, 97, 108, 105, 100, 32, 78, 97, 109, 101 >>)],
       [k |-> Key("nozzle_temp"), v |-> PyInt(220)],
       [k |-> Key("nozzle_temp"), v |-> PyInt(200)],
       [k |-> Key("color"), v |-> PyStr(<< 35, 70, 70, 70, 70, 70, 70, 48 >>)] >>

\* an item with an unknown key: ('invalid_field', 'should_be_ignored')
UnknownItems ==
    << [k |-> << 105, 110, 118, 97, 108, 105, 100, 95, 102, 105, 101, 108, 100 >>,
        v |-> PyStr(<< 115, 104, 111, 117, 108, 100, 95, 98, 101, 95, 105, 103,
             110, 111, 114, 101, 100 >>)] >>

\* bytes payloads
BytesPayloads ==
    << \* b''
       PyBytes(<< >>),
       \* b'\x00'
       PyBytes(<< 0 >>),
       \* b'\x00\x01\x02'
       PyBytes(<< 0, 1, 2 >>),
       \* b'FM'
       PyBytes(<< 70, 77 >>),
       \* b'123456789'
       PyBytes(<< 49, 50, 51, 52, 53, 54, 55, 56, 57 >>),
       \* b'FMLB\xdc\x00P\x00\x00\x00'
       PyBytes(<< 70, 77, 76, 66, 220, 0, 80, 0, 0, 0 >>),
       \* b'FMLB\x95\x00P\x00\x00\x00'
       PyBytes(<< 70, 77, 76, 66, 149, 0, 80, 0, 0, 0 >>),
       \* b'FMLB\xdc\x00\x97\x00\x00\x00'
       PyBytes(<< 70, 77, 76, 66, 220, 0, 151, 0, 0, 0 >>),
       \* b'FMLB_\x01\x97\x00\x00\x00'
       PyBytes(<< 70, 77, 76, 66, 95, 1, 151, 0, 0, 0 >>),
       \* b'FMLB\x96\x00\x00\x00\x00\x00'
       PyBytes(<< 70, 77, 76, 66, 150, 0, 0, 0, 0, 0 >>),
       \* b'FMLB^\x01\x96\x00\x00\x00'
       PyBytes(<< 70, 77, 76, 66, 94, 1, 150, 0, 0, 0 >>),
       \* b'FMLB\xff\xff\xff\xff\x00\x00'
       PyBytes(<< 70, 77, 76, 66, 255, 255, 255, 255, 0, 0 >>),
       \* b'FMLB\xdc\x00P\x00\x00\x00\x00\x00\x00\x00\x00'
       PyBytes(<< 70, 77, 76, 66, 220, 0, 80, 0, 0, 0, 0, 0, 0, 0, 0 >>),
       \* b'FMLB\xdc\x00P\x00ff\xa6?ff6@'
       PyBytes(<< 70, 77, 76, 66, 220, 0, 80, 0, 102, 102, 166, 63, 102, 102,
       54, 64 >>),
       \* b'FMLB\xdc\x00P\x00\x00\x00\x00?\x00\x00@@'
       PyBytes(<< 70, 77, 76, 66, 220, 0, 80, 0, 0, 0, 0, 63, 0, 0, 64, 64 >>),
       \* b'FMLB\xdc\x00P\x00\x00\x00\xa0@\x00\x00\x80?'
       PyBytes(<< 70, 77, 76, 66, 220, 0, 80, 0, 0, 0, 160, 64, 0, 0, 128,
       63 >>),
       \* b'FMLB\xdc\x00P\x00\xcd\xcc\xcc>ff6@'
       PyBytes(<< 70, 77, 76, 66, 220, 0, 80, 0, 205, 204, 204, 62, 102, 102,
       54, 64 >>),
       \* b'FMLB\xdc\x00P\x00ff\xa6?\x00\x00`@'
       PyBytes(<< 70, 77, 76, 66, 220, 0, 80, 0, 102, 102, 166, 63, 0, 0, 96,
       64 >>),
       \* b'FMLB\xdc\x00P\x00\x00\x00\xc0\x7fff6@'
       PyBytes(<< 70, 77, 76, 66, 220, 0, 80, 0, 0, 0, 192, 127, 102, 102, 54,
       64 >>),
       \* b'FMLB\xdc\x00P\x00\x00\x00\x80\x7fff6@'
       PyBytes(<< 70, 77, 76, 66, 220, 0, 80, 0, 0, 0, 128, 127, 102, 102, 54,
       64 >>),
       \* b'FMLB\xdc\x00P\x00ff\xa6?\x00\x00\x80\xff'
       PyBytes(<< 70, 77, 76, 66, 220, 0, 80, 0, 102, 102, 166, 63, 0, 0, 128,
       255 >>),
       \* b'FMLB\xdc\x00P\x00ff\xa6\xbfff6@'
       PyBytes(<< 70, 77, 76, 66, 220, 0, 80, 0, 102, 102, 166, 191, 102, 102,
       54, 64 >>),
       \* b'FMLB\xdc\x00P\x00R\xb8\x9e?\x00\x00\xe0?'
       PyBytes(<< 70, 77, 76, 66, 220, 0, 80, 0, 82, 184, 158, 63, 0, 0, 224,
       63 >>),
       \* b'FMLB\x95\x00P\x00\x00\x00\xb0@ff6@'
       PyBytes(<< 70, 77, 76, 66, 149, 0, 80, 0, 0, 0, 176, 64, 102, 102, 54,
       64 >>),
       \* b'FMLB\xdc\x00P\x00\x00\x00\x00\x00\x00\x00\x00\x00'
       PyBytes(<< 70, 77, 76, 66, 220, 0, 80, 0, 0, 0, 0, 0, 0, 0, 0, 0 >>),
       \* b'FMLB\xdc\x00P\x00\xc2\x16\x01\x00\x01\x00\x80?'
       PyBytes(<< 70, 77, 76, 66, 220, 0, 80, 0, 194, 22, 1, 0, 1, 0, 128,
       63 >>),
       \* b'FMLB\xdc\x00P\x00\x01\x00\xa0@\x01\x00@@'
       PyBytes(<< 70, 77, 76, 66, 220, 0, 80, 0, 1, 0, 160, 64, 1, 0, 64,
       64 >>),
       \* b'FMLB\xdc\x00P\x00ff\xa6?ff6@PLA Red'
       PyBytes(<< 70, 77, 76, 66, 220, 0, 80, 0, 102, 102, 166, 63, 102, 102,
       54, 64, 80, 76, 65, 32, 82, 101, 100 >>),
       \* b'FMLB\xdc\x00P\x00ff\xa6?ff6@PLA Red\x00rest\x00\x00'
       PyBytes(<< 70, 77, 76, 66, 220, 0, 80, 0, 102, 102, 166, 63, 102, 102,
       54, 64, 80, 76, 65, 32, 82, 101, 100, 0, 114, 101, 115, 116, 0, 0 >>),
       \* b'FMLB\xdc\x00P\x00ff\xa6?ff6@\x00PLA'
       PyBytes(<< 70, 77, 76, 66, 220, 0, 80, 0, 102, 102, 166, 63, 102, 102,
       54, 64, 0, 80, 76, 65 >>),
       \* b'FMLB\xdc\x00P\x00ff\xa6?ff6@\x00\x00'
       PyBytes(<< 70, 77, 76, 66, 220, 0, 80, 0, 102, 102, 166, 63, 102, 102,
       54, 64, 0, 0 >>),
       \* b'FMLB\xdc\x00P\x00ff\xa6?ff6@\xffPL\xc3A\xe2\x84\xa2'
       PyBytes(<< 70, 77, 76, 66, 220, 0, 80, 0, 102, 102, 166, 63, 102, 102,
       54, 64, 255, 80, 76, 195, 65, 226, 132, 162 >>),
       \* b'FMLB\xdc\x00P\x00ff\xa6?ff ... yyyyyyyyyyyyyyyyyyyyyyy' (86)
       PyBytes(<< 70, 77, 76, 66, 220, 0, 80, 0, 102, 102, 166, 63, 102, 102,
       54, 64, 121, 121, 121, 121, 121, 121, 121, 121, 121, 121, 121, 121, 121,
       121, 121, 121, 121, 121, 121, 121, 121, 121, 121, 121, 121, 121, 121,
       121, 121, 121, 121, 121, 121, 121, 121, 121, 121, 121, 121, 121, 121,
       121, 121, 121, 121, 121, 121, 121, 121, 121, 121, 121, 121, 121, 121,
       121, 121, 121, 121, 121, 121, 121, 121, 121, 121, 121, 121, 121, 121,
       121 >>),
       \* b'FMLB\xdc\x00P\x00ff\xa6?ff6@Unknown Filament'
       PyBytes(<< 70, 77, 76, 66, 220, 0, 80, 0, 102, 102, 166, 63, 102, 102,
       54, 64, 85, 110, 107, 110, 111, 119, 110, 32, 70, 105, 108, 97, 109,
       101, 110, 116 >>),
       \* b'FMLB\xc8\x00<\x00R\xb8\x9e?\x00\x00\xe0?\xff\xff'
       PyBytes(<< 70, 77, 76, 66, 200, 0, 60, 0, 82, 184, 158, 63, 0, 0, 224,
       63, 255, 255 >>),
       \* b'FMLB\xff\xff\xff\xff\xff\x ... xff\xff\xff\xff\xff\xff' (54)
       PyBytes(<< 70, 77, 76, 66, 255, 255, 255, 255, 255, 255, 255, 255, 255,
       255, 255, 255, 255, 255, 255, 255, 255, 255, 255, 255, 255, 255, 255,
       255, 255, 255, 255, 255, 255, 255, 255, 255, 255, 255, 255, 255, 255,
       255, 255, 255, 255, 255, 255, 255, 255, 255, 255, 255, 255, 255 >>),
       \* b'\x00\x00\x00\x00\x00\x00\x00\x00\x00\x00'
       PyBytes(<< 0, 0, 0, 0, 0, 0, 0, 0, 0, 0 >>),
       \* b'\x00\x00\x00\x00\x00\x00\x ... x00\x00\x00\x00\x00\x00' (16)
       PyBytes(<< 0, 0, 0, 0, 0, 0, 0, 0, 0, 0, 0, 0, 0, 0, 0, 0 >>),
       \* b'\x00\x00\x00\x00\x00\x00\x ... x00\x00\x00\x00\x00\x00' (17)
       PyBytes(<< 0, 0, 0, 0, 0, 0, 0, 0, 0, 0, 0, 0, 0, 0, 0, 0, 0 >>) >>

\* str payloads
StringPayloads ==
    << \* ''
       PyStr(<< >>),
       \* '   '
       PyStr(<< 32, 32, 32 >>),
       \* '\t\n'
       PyStr(<< 9, 10 >>),
       \* '{"name": "Test"'
       PyStr(<< 123, 34, 110, 97, 109, 101, 34, 58, 32, 34, 84, 101, 115, 116,
       34 >>),
       \* '{"name": "Test", "type":}'
       PyStr(<< 123, 34, 110, 97, 109, 101, 34, 58, 32, 34, 84, 101, 115, 116,
       34, 44, 32, 34, 116, 121, 112, 101, 34, 58, 125 >>),
       \* '{name: "Test"}'
       PyStr(<< 123, 110, 97, 109, 101, 58, 32, 34, 84, 101, 115, 116, 34,
       125 >>),
       \* '{"name": "Test", "temp": 200,}'
       PyStr(<< 123, 34, 110, 97, 109, 101, 34, 58, 32, 34, 84, 101, 115, 116,
       34, 44, 32, 34, 116, 101, 109, 112, 34, 58, 32, 50, 48, 48, 44, 125 >>),
       \* 'not json at all'
       PyStr(<< 110, 111, 116, 32, 106, 115, 111, 110, 32, 97, 116, 32, 97,
       108, 108 >>),
       \* '0x12345'
       PyStr(<< 48, 120, 49, 50, 51, 52, 53 >>),
       \* 'ZZZZZZ'
       PyStr(<< 90, 90, 90, 90, 90, 90 >>),
       \* '0x'
       PyStr(<< 48, 120 >>),
       \* '12 34 56 7'
       PyStr(<< 49, 50, 32, 51, 52, 32, 53, 54, 32, 55 >>),
       \* '0xGHIJKL'
       PyStr(<< 48, 120, 71, 72, 73, 74, 75, 76 >>),
       \* '{}'
       PyStr(<< 123, 125 >>),
       \* ' {} '
       PyStr(<< 32, 123, 125, 32 >>),
       \* '{"name": "Test"}'
       PyStr(<< 123, 34, 110, 97, 109, 101, 34, 58, 32, 34, 84, 101, 115, 116,
       34, 125 >>),
       \* '{"name": "Test", "nozzle_temp": 9999}'
       PyStr(<< 123, 34, 110, 97, 109, 101, 34, 58, 32, 34, 84, 101, 115, 116,
       34, 44, 32, 34, 110, 111, 122, 122, 108, 101, 95, 116, 101, 109, 112,
       34, 58, 32, 57, 57, 57, 57, 125 >>),
       \* '{"nozzle_temp": 200}'
       PyStr(<< 123, 34, 110, 111, 122, 122, 108, 101, 95, 116, 101, 109, 112,
       34, 58, 32, 50, 48, 48, 125 >>),
       \* '{"nozzle_temp": "220"}'
       PyStr(<< 123, 34, 110, 111, 122, 122, 108, 101, 95, 116, 101, 109, 112,
       34, 58, 32, 34, 50, 50, 48, 34, 125 >>),
       \* '{"density": NaN}'
       PyStr(<< 123, 34, 100, 101, 110, 115, 105, 116, 121, 34, 58, 32, 78, 97,
       78, 125 >>),
       \* '{"density": NaN, "name": "N"}'
       PyStr(<< 123, 34, 100, 101, 110, 115, 105, 116, 121, 34, 58, 32, 78, 97,
       78, 44, 32, 34, 110, 97, 109, 101, 34, 58, 32, 34, 78, 34, 125 >>),
       \* '{"remaining_weight": Infini ... nfinity, "type": "ABS"}' (68)
       PyStr(<< 123, 34, 114, 101, 109, 97, 105, 110, 105, 110, 103, 95, 119,
       101, 105, 103, 104, 116, 34, 58, 32, 73, 110, 102, 105, 110, 105, 116,
       121, 44, 32, 34, 98, 101, 100, 95, 116, 101, 109, 112, 34, 58, 32, 45,
       73, 110, 102, 105, 110, 105, 116, 121, 44, 32, 34, 116, 121, 112, 101,
       34, 58, 32, 34, 65, 66, 83, 34, 125 >>),
       \* '{"density": 1.3, "diameter" ... ": 220, "bed_temp": 80}' (70)
       PyStr(<< 123, 34, 100, 101, 110, 115, 105, 116, 121, 34, 58, 32, 49, 46,
       51, 44, 32, 34, 100, 105, 97, 109, 101, 116, 101, 114, 34, 58, 32, 50,
       46, 56, 53, 44, 32, 34, 110, 111, 122, 122, 108, 101, 95, 116, 101, 109,
       112, 34, 58, 32, 50, 50, 48, 44, 32, 34, 98, 101, 100, 95, 116, 101,
       109, 112, 34, 58, 32, 56, 48, 125 >>),
       \* '{"density": 1.3e0, "remaining_length": 24e1}'
       PyStr(<< 123, 34, 100, 101, 110, 115, 105, 116, 121, 34, 58, 32, 49, 46,
       51, 101, 48, 44, 32, 34, 114, 101, 109, 97, 105, 110, 105, 110, 103, 95,
       108, 101, 110, 103, 116, 104, 34, 58, 32, 50, 52, 101, 49, 125 >>),
       \* '{"color": "red"}'
       PyStr(<< 123, 34, 99, 111, 108, 111, 114, 34, 58, 32, 34, 114, 101, 100,
       34, 125 >>),
       \* '{"color": "#FFFFFF00"}'
       PyStr(<< 123, 34, 99, 111, 108, 111, 114, 34, 58, 32, 34, 35, 70, 70,
       70, 70, 70, 70, 48, 48, 34, 125 >>),
       \* '{"name": "a", "name": "b"}'
       PyStr(<< 123, 34, 110, 97, 109, 101, 34, 58, 32, 34, 97, 34, 44, 32, 34,
       110, 97, 109, 101, 34, 58, 32, 34, 98, 34, 125 >>),
       \* '{"name": {"nozzle_temp": 200}, "array_field": [1, 2, 3]}'
       PyStr(<< 123, 34, 110, 97, 109, 101, 34, 58, 32, 123, 34, 110, 111, 122,
       122, 108, 101, 95, 116, 101, 109, 112, 34, 58, 32, 50, 48, 48, 125, 44,
       32, 34, 97, 114, 114, 97, 121, 95, 102, 105, 101, 108, 100, 34, 58, 32,
       91, 49, 44, 32, 50, 44, 32, 51, 93, 125 >>),
       \* '{"properties": {"nozzle_temp": 220}}'
       PyStr(<< 123, 34, 112, 114, 111, 112, 101, 114, 116, 105, 101, 115, 34,
       58, 32, 123, 34, 110, 111, 122, 122, 108, 101, 95, 116, 101, 109, 112,
       34, 58, 32, 50, 50, 48, 125, 125 >>),
       \* '{"name": null, "type": true, "color": false}'
       PyStr(<< 123, 34, 110, 97, 109, 101, 34, 58, 32, 110, 117, 108, 108, 44,
       32, 34, 116, 121, 112, 101, 34, 58, 32, 116, 114, 117, 101, 44, 32, 34,
       99, 111, 108, 111, 114, 34, 58, 32, 102, 97, 108, 115, 101, 125 >>),
       \* '{"name": "tab\\there \\u0041 \\"q\\""}'
       PyStr(<< 123, 34, 110, 97, 109, 101, 34, 58, 32, 34, 116, 97, 98, 92,
       116, 104, 101, 114, 101, 32, 92, 117, 48, 48, 52, 49, 32, 92, 34, 113,
       92, 34, 34, 125 >>),
       \* '{"name": "zzzzzzzzzzzzzzzzz ... zzzzzzzzzzzzzzzzzzzzz"}' (82)
       PyStr(<< 123, 34, 110, 97, 109, 101, 34, 58, 32, 34, 122, 122, 122, 122,
       122, 122, 122, 122, 122, 122, 122, 122, 122, 122, 122, 122, 122, 122,
       122, 122, 122, 122, 122, 122, 122, 122, 122, 122, 122, 122, 122, 122,
       122, 122, 122, 122, 122, 122, 122, 122, 122, 122, 122, 122, 122, 122,
       122, 122, 122, 122, 122, 122, 122, 122, 122, 122, 122, 122, 122, 122,
       122, 122, 122, 122, 122, 122, 122, 122, 122, 122, 34, 125 >>),
       \* '{"bed_temp": 01}'
       PyStr(<< 123, 34, 98, 101, 100, 95, 116, 101, 109, 112, 34, 58, 32, 48,
       49, 125 >>),
       \* '{"bed_temp": 1.}'
       PyStr(<< 123, 34, 98, 101, 100, 95, 116, 101, 109, 112, 34, 58, 32, 49,
       46, 125 >>),
       \* '{"bed_temp": .5}'
       PyStr(<< 123, 34, 98, 101, 100, 95, 116, 101, 109, 112, 34, 58, 32, 46,
       53, 125 >>),
       \* '{"bed_temp": -}'
       PyStr(<< 123, 34, 98, 101, 100, 95, 116, 101, 109, 112, 34, 58, 32, 45,
       125 >>),
       \* '{"name": "a"} x'
       PyStr(<< 123, 34, 110, 97, 109, 101, 34, 58, 32, 34, 97, 34, 125, 32,
       120 >>),
       \* '{"name": \'a\'}'
       PyStr(<< 123, 34, 110, 97, 109, 101, 34, 58, 32, 39, 97, 39, 125 >>),
       \* '5'
       PyStr(<< 53 >>),
       \* '-7'
       PyStr(<< 45, 55 >>),
       \* '3.14'
       PyStr(<< 51, 46, 49, 52 >>),
       \* '1e5'
       PyStr(<< 49, 101, 53 >>),
       \* 'null'
       PyStr(<< 110, 117, 108, 108 >>),
       \* 'true'
       PyStr(<< 116, 114, 117, 101 >>),
       \* 'false'
       PyStr(<< 102, 97, 108, 115, 101 >>),
       \* 'NaN'
       PyStr(<< 78, 97, 78 >>),
       \* 'Infinity'
       PyStr(<< 73, 110, 102, 105, 110, 105, 116, 121 >>),
       \* '[]'
       PyStr(<< 91, 93 >>),
       \* '[1, 2, 3]'
       PyStr(<< 91, 49, 44, 32, 50, 44, 32, 51, 93 >>),
       \* '[{"name": "a"}]'
       PyStr(<< 91, 123, 34, 110, 97, 109, 101, 34, 58, 32, 34, 97, 34, 125,
       93 >>),
       \* '"abc"'
       PyStr(<< 34, 97, 98, 99, 34 >>),
       \* '"unterminated'
       PyStr(<< 34, 117, 110, 116, 101, 114, 109, 105, 110, 97, 116, 101,
       100 >>),
       \* '[1, 2'
       PyStr(<< 91, 49, 44, 32, 50 >>),
       \* '[1,]'
       PyStr(<< 91, 49, 44, 93 >>),
       \* 'nul'
       PyStr(<< 110, 117, 108 >>),
       \* '464d4c42dc0050000000'
       PyStr(<< 52, 54, 52, 100, 52, 99, 52, 50, 100, 99, 48, 48, 53, 48, 48,
       48, 48, 48, 48, 48 >>),
       \* '464D4C42DC0050000000'
       PyStr(<< 52, 54, 52, 68, 52, 67, 52, 50, 68, 67, 48, 48, 53, 48, 48, 48,
       48, 48, 48, 48 >>),
       \* '0x464d4c42dc0050000000'
       PyStr(<< 48, 120, 52, 54, 52, 100, 52, 99, 52, 50, 100, 99, 48, 48, 53,
       48, 48, 48, 48, 48, 48, 48 >>),
       \* '46 4d 4c 42 dc 00 50 00 00 00'
       PyStr(<< 52, 54, 32, 52, 100, 32, 52, 99, 32, 52, 50, 32, 100, 99, 32,
       48, 48, 32, 53, 48, 32, 48, 48, 32, 48, 48, 32, 48, 48 >>),
       \* '464d-4c42-dc00-5000-0000'
       PyStr(<< 52, 54, 52, 100, 45, 52, 99, 52, 50, 45, 100, 99, 48, 48, 45,
       53, 48, 48, 48, 45, 48, 48, 48, 48 >>),
       \* '464d4c42\tdc005000\t0000'
       PyStr(<< 52, 54, 52, 100, 52, 99, 52, 50, 9, 100, 99, 48, 48, 53, 48,
       48, 48, 9, 48, 48, 48, 48 >>),
       \* '464d4c42\ndc0050000000\n'
       PyStr(<< 52, 54, 52, 100, 52, 99, 52, 50, 10, 100, 99, 48, 48, 53, 48,
       48, 48, 48, 48, 48, 48, 10 >>),
       \* '464d4c4\t2dc0050000000\t'
       PyStr(<< 52, 54, 52, 100, 52, 99, 52, 9, 50, 100, 99, 48, 48, 53, 48,
       48, 48, 48, 48, 48, 48, 9 >>),
       \* '464d4c42dc0050000000\t'
       PyStr(<< 52, 54, 52, 100, 52, 99, 52, 50, 100, 99, 48, 48, 53, 48, 48,
       48, 48, 48, 48, 48, 9 >>),
       \* '464d4c42dc\xa0\xa00050000000'
       PyStr(<< 52, 54, 52, 100, 52, 99, 52, 50, 100, 99, 160, 160, 48, 48, 53,
       48, 48, 48, 48, 48, 48, 48 >>),
       \* '464d4c42dc00500000'
       PyStr(<< 52, 54, 52, 100, 52, 99, 52, 50, 100, 99, 48, 48, 53, 48, 48,
       48, 48, 48 >>),
       \* '464d4c42dc00500000000'
       PyStr(<< 52, 54, 52, 100, 52, 99, 52, 50, 100, 99, 48, 48, 53, 48, 48,
       48, 48, 48, 48, 48, 48 >>),
       \* '464d4c42dc005000000g'
       PyStr(<< 52, 54, 52, 100, 52, 99, 52, 50, 100, 99, 48, 48, 53, 48, 48,
       48, 48, 48, 48, 103 >>),
       \* '0X464d4c42dc0050000000'
       PyStr(<< 48, 88, 52, 54, 52, 100, 52, 99, 52, 50, 100, 99, 48, 48, 53,
       48, 48, 48, 48, 48, 48, 48 >>),
       \* '464d4c42dc0050006666a63f66663640504c41'
       PyStr(<< 52, 54, 52, 100, 52, 99, 52, 50, 100, 99, 48, 48, 53, 48, 48,
       48, 54, 54, 54, 54, 97, 54, 51, 102, 54, 54, 54, 54, 51, 54, 52, 48, 53,
       48, 52, 99, 52, 49 >>),
       \* '0x464d4c42dc0050006666a63f66663640504c41 0x'
       PyStr(<< 48, 120, 52, 54, 52, 100, 52, 99, 52, 50, 100, 99, 48, 48, 53,
       48, 48, 48, 54, 54, 54, 54, 97, 54, 51, 102, 54, 54, 54, 54, 51, 54, 52,
       48, 53, 48, 52, 99, 52, 49, 32, 48, 120 >>),
       \* '464d4c42d0xc0050000000'
       PyStr(<< 52, 54, 52, 100, 52, 99, 52, 50, 100, 48, 120, 99, 48, 48, 53,
       48, 48, 48, 48, 48, 48, 48 >>),
       \* '464d4c42d 0xc0050000000'
       PyStr(<< 52, 54, 52, 100, 52, 99, 52, 50, 100, 32, 48, 120, 99, 48, 48,
       53, 48, 48, 48, 48, 48, 48, 48 >>),
       \* '12345678901234567890'
       PyStr(<< 49, 50, 51, 52, 53, 54, 55, 56, 57, 48, 49, 50, 51, 52, 53, 54,
       55, 56, 57, 48 >>),
       \* '1234567890123456789012'
       PyStr(<< 49, 50, 51, 52, 53, 54, 55, 56, 57, 48, 49, 50, 51, 52, 53, 54,
       55, 56, 57, 48, 49, 50 >>),
       \* '12e45678901234567890'
       PyStr(<< 49, 50, 101, 52, 53, 54, 55, 56, 57, 48, 49, 50, 51, 52, 53,
       54, 55, 56, 57, 48 >>),
       \* '00112233445566778899'
       PyStr(<< 48, 48, 49, 49, 50, 50, 51, 51, 52, 52, 53, 53, 54, 54, 55, 55,
       56, 56, 57, 57 >>),
       \* '-1234567890'
       PyStr(<< 45, 49, 50, 51, 52, 53, 54, 55, 56, 57, 48 >>),
       \* '0000000000000000000000000000000041'
       PyStr(<< 48, 48, 48, 48, 48, 48, 48, 48, 48, 48, 48, 48, 48, 48, 48, 48,
       48, 48, 48, 48, 48, 48, 48, 48, 48, 48, 48, 48, 48, 48, 48, 48, 52,
       49 >>) >>

\* None, 42, 3.14, True, [], [1, 2, 3], set(), object()
OtherPayloads ==
    << PyNone,
       PyInt(42),
       PyDec(FALSE, 3140),
       PyBool(TRUE),
       PyList(<< >>),
       PyList(<< PyInt(1), PyInt(2), PyInt(3) >>),
       PySet,
       PyObject >>

\* the mapping {field: RawValues[field][i]}, then the j-th second item and
\* the k-th unknown item set in it (0: none)
MappingOf(first, j, k) ==
    LET with2 == IF j = 0 THEN first
                 ELSE DictSet(first, SecondItems[j].k, SecondItems[j].v)
    IN  PyDict(IF k = 0 THEN with2
               ELSE DictSet(with2, UnknownItems[k].k, UnknownItems[k].v))

(***************************************************************************)
(* Specification SpecPayload: a caller hands one payload after another to  *)
(* decode_payload of one NFCPayloadDecoder, which keeps no state between   *)
(* calls, and takes the result of a call before it makes the next one.     *)
(***************************************************************************)
InitPayload ==
    /\ cryptodome = FALSE
    /\ ctor = [enc |-> None, dec |-> None]
    /\ encoder = NewCodec(ctor.enc)
    /\ decoder = NewCodec(ctor.dec)
    /\ image = << >>
    /\ origin = NoOrigin
    /\ last = NoCall
    /\ threads = << >>
    /\ payload = NoPayload /\ result = NoResult
    /\ device = NewDevice /\ auth = NewAuthorizationService /\ calls = << >>

\* decode_payload(p)
DecodePayload(p) ==
    /\ payload = NoPayload
    /\ payload' = p
    /\ \E r \in { decode_payload(p) } : result' = r
    /\ UNCHANGED << cryptodome, encoder, decoder, image, origin, last, ctor, threads, device, auth, calls >>

\* a mapping with a known field, possibly a second item and an unknown key
DecodeMapping(field, i, j, k) ==
    DecodePayload(MappingOf(<< [k |-> Key(field), v |-> RawValues[field][i]] >>, j, k))

\* a mapping without a raw value of the table: {}, unknown keys only, ...
DecodeBareMapping(j, k) == DecodePayload(MappingOf(<< >>, j, k))

DecodeString(n) == DecodePayload(StringPayloads[n])

DecodeBytes(n) == DecodePayload(BytesPayloads[n])

DecodeOther(n) == DecodePayload(OtherPayloads[n])

\* the caller has the record or the exception and turns to the next payload
TakeResult ==
    /\ payload # NoPayload
    /\ payload' = NoPayload /\ result' = NoResult
    /\ UNCHANGED << cryptodome, encoder, decoder, image, origin, last, ctor, threads, device, auth, calls >>

NextPayload ==
    \/ \E field \in Fields : \E i \in 1..Len(RawValues[field]) :
       \E j \in 0..Len(SecondItems), k \in 0..Len(UnknownItems) :
          DecodeMapping(field, i, j, k)
    \/ \E j \in 0..Len(SecondItems), k \in 0..Len(UnknownItems) : DecodeBareMapping(j, k)
    \/ \E n \in 1..Len(StringPayloads) : DecodeString(n)
    \/ \E n \in 1..Len(BytesPayloads) : DecodeBytes(n)
    \/ \E n \in 1..Len(OtherPayloads) : DecodeOther(n)
    \/ TakeResult

SpecPayload == InitPayload /\ [][NextPayload]_vars


(***************************************************************************)
(* Properties of SpecPayload                                               *)
(***************************************************************************)
\* a decode_payload call has ended and its result is at hand
PayloadCalled == payload # NoPayload

\* C12: whatever the payload (None, dict, str, bytes, int, float, bool, list,
\* set, object, a JSON text of a number, a list or null), decode_payload
\* returns a record or raises NFCDecodingError, never another exception.
DecodePayloadNeverPanics ==
    PayloadCalled =>
        \/ result.kind = "record"
        \/ result.kind = "raise" /\ result.exc = "NFCDecodingError"

\* a JSON text of a number or of null reached _decode_dict_payload, len()
\* raised TypeError there, and the call ended in NFCDecodingError
NonObjectJsonRejected ==
    /\ PayloadCalled /\ payload.t = "str"
    /\ json_loads(Strip(payload.v)).ok
    /\ json_loads(Strip(payload.v)).v.t \in { "int", "NoneType" }
    /\ result.kind = "raise" /\ result.exc = "NFCDecodingError"
    /\ result.msg = "Unexpected decoding error"


\* s is a text of hex digits only, of even length
IsHexString(s) ==
    /\ Len(s) % 2 = 0
    /\ \A i \in 1..Len(s) : HexDigitVal(s[i]) >= 0

\* the inputs on which the decode must fail: None, a value that is not a
\* dict, str or bytes, the empty or whitespace-only string, a string that is
\* neither valid JSON nor (without '0x', spaces and dashes) an even-length
\* hex string, bytes shorter than 10
HardFailureInput(p) ==
    \/ p.t \notin { "dict", "str", "bytes" }
    \/ p.t = "str" /\ Strip(p.v) = << >>
    \/ p.t = "str" /\ ~json_loads(Strip(p.v)).ok /\ ~IsHexString(CleanHex(Strip(p.v)))
    \/ p.t = "bytes" /\ Len(p.v) < 10

\* C13: on every hard-failure input (None, an unsupported type, an empty or
\* whitespace-only string, a string that is neither JSON nor an even-length
\* hex string, bytes shorter than 10) decode_payload raises NFCDecodingError
\* and returns no record.
HardFailureInputsFail ==
    (PayloadCalled /\ HardFailureInput(payload)) =>
        (result.kind = "raise" /\ result.exc = "NFCDecodingError")


\* a numeric field value within [lo / 1000, hi / 1000]
NumInRange(value, lo, hi) ==
    \/ value.t = "int" /\ lo <= value.v * 1000 /\ value.v * 1000 <= hi
    \/ value.t = "float" /\ IsFinite(value.v) /\ FloatGe(value.v, lo) /\ FloatLe(value.v, hi)

\* a string field value of at most n characters
StrWithin(value, n) == value.t = "str" /\ Len(value.v) <= n

\* C14: every record that decode_payload returns, through the mapping, the
\* string or the bytes path, holds all ten fields, with nozzle_temp in
\* [150,350], bed_temp in [0,150], density in [0.5,5.0], diameter in
\* [1.0,3.0], remaining_length in [0,10000], remaining_weight in [0,5000],
\* and name, type, color, manufacturer of at most 64, 16, 7, 32 characters.
ReturnedRecordInRange ==
    (PayloadCalled /\ result.kind = "record") =>
        /\ DOMAIN result.rec = Fields
        /\ NumInRange(result.rec.nozzle_temp, 150000, 350000)
        /\ NumInRange(result.rec.bed_temp, 0, 150000)
        /\ NumInRange(result.rec.density, 500, 5000)
        /\ NumInRange(result.rec.diameter, 1000, 3000)
        /\ NumInRange(result.rec.remaining_length, 0, 10000000)
        /\ NumInRange(result.rec.remaining_weight, 0, 5000000)
        /\ StrWithin(result.rec.name, 64)
        /\ StrWithin(result.rec.type, 16)
        /\ StrWithin(result.rec.color, 7)
        /\ StrWithin(result.rec.manufacturer, 32)

\* a mapping with a nozzle_temp above 350 and a valid name came back as a
\* record with nozzle_temp 200 and that name
OutOfRangeReplacedInRecord ==
    /\ PayloadCalled /\ payload.t = "dict" /\ result.kind = "record"
    /\ HasKey(payload.v, Key("nozzle_temp"))
    /\ DictGet(payload.v, Key("nozzle_temp")).t = "int"
    /\ DictGet(payload.v, Key("nozzle_temp")).v > 350
    /\ result.rec.nozzle_temp = PyInt(200)
    /\ HasKey(payload.v, Key("name"))
    /\ result.rec.name = DictGet(payload.v, Key("name"))


\* C15: in every record that decode_payload returns the color has exactly 7
\* characters, the first is '#' and the other six are hexadecimal digits,
\* whatever color the input carried.
ReturnedColorIsHex ==
    (PayloadCalled /\ result.kind = "record") =>
        /\ result.rec.color.t = "str"
        /\ Len(result.rec.color.v) = 7
        /\ result.rec.color.v[1] = 35
        /\ \A i \in 2..7 : HexDigitVal(result.rec.color.v[i]) >= 0


\* the value the contract gives a known field of a mapping: the default for
\* a raw value that is missing, None, not coercible, NaN, an infinity or
\* outside [min, max], the coerced raw value otherwise
ContractValue(items, field) ==
    IF ~HasKey(items, Key(field)) \/ DictGet(items, Key(field)).t = "NoneType"
      THEN DEFAULT_VALUES[field]
    ELSE IF EXPECTED_FIELDS[field].type = "str" THEN PyStr(ToStr(DictGet(items, Key(field))))
    ELSE IF ~ToFloat(DictGet(items, Key(field))).ok THEN DEFAULT_VALUES[field]
    ELSE IF ~IsFinite(ToFloat(DictGet(items, Key(field))).f) THEN DEFAULT_VALUES[field]
    ELSE IF ~FloatGe(ToFloat(DictGet(items, Key(field))).f, EXPECTED_FIELDS[field].min)
      THEN DEFAULT_VALUES[field]
    ELSE IF ~FloatLe(ToFloat(DictGet(items, Key(field))).f, EXPECTED_FIELDS[field].max)
      THEN DEFAULT_VALUES[field]
    ELSE IF EXPECTED_FIELDS[field].type = "int"
      THEN PyInt(ToInt(ToFloat(DictGet(items, Key(field))).f).f)
    ELSE PyFloat(ToFloat(DictGet(items, Key(field))).f)

\* a string field whose text is longer than the field's maximum
OverLong(items, field) ==
    /\ EXPECTED_FIELDS[field].type = "str"
    /\ HasKey(items, Key(field))
    /\ Len(ToStr(DictGet(items, Key(field)))) > EXPECTED_FIELDS[field].max_length

\* C16: in every record returned for a mapping payload, a known field whose
\* raw value is missing, None, not coercible, NaN, an infinity or outside
\* its inclusive [min, max] holds the field's default, and a known field
\* whose raw value is valid (bounds and numeric strings included) holds the
\* coerced raw value; unknown keys change nothing.
PerFieldDefaulting ==
    (PayloadCalled /\ payload.t = "dict" /\ result.kind = "record") =>
        \A field \in Fields :
            \/ OverLong(payload.v, field)
            \/ PyEq(result.rec[field], ContractValue(payload.v, field))


\* the known fields of a mapping whose value passes type coercion and range
\* validation
PassingFields(items) ==
    { field \in Fields :
        /\ HasKey(items, Key(field))
        /\ validate_field(field, DictGet(items, Key(field)), EXPECTED_FIELDS[field]).ok }

\* C17: a mapping payload in which at least one known field carries a value
\* that passes type coercion and range validation is never rejected;
\* decode_payload returns a record for it, also when every valid value
\* equals its field's default, as in {"nozzle_temp": 200}.
MappingWithValidFieldAccepted ==
    (PayloadCalled /\ payload.t = "dict" /\ PassingFields(payload.v) # { }) =>
        result.kind = "record"


\* the no-salvageable-data failure
NoSalvageableData == Raised("NFCDecodingError", "No valid fields found in payload")

\* the statement without the distinction of unknown keys: every non-empty
\* mapping without a valid known field, one with unknown keys only included,
\* is rejected with the no-salvageable-data failure
EveryMappingWithoutValidFieldRejected ==
    (PayloadCalled /\ payload.t = "dict" /\ Len(payload.v) > 0 /\ PassingFields(payload.v) = { }) =>
        result = NoSalvageableData

\* C18: a mapping payload that holds at least one known key and from which
\* no known field could be extracted as valid is rejected with the
\* no-salvageable-data failure; a mapping that holds unknown keys only is
\* returned as the record of the ten defaults.
MappingWithoutValidFieldRejected ==
    (PayloadCalled /\ payload.t = "dict" /\ Len(payload.v) > 0 /\ PassingFields(payload.v) = { }) =>
        IF ProvidedFields(payload.v) # { }
          THEN result = NoSalvageableData
          ELSE result = Returned(DEFAULT_VALUES)

\* a mapping whose only known key carries a value that fails validation was
\* rejected
InvalidOnlyMappingRejected ==
    /\ PayloadCalled /\ payload.t = "dict"
    /\ ProvidedFields(payload.v) # { }
    /\ PassingFields(payload.v) = { }
    /\ result = NoSalvageableData


\* C19: decode_payload of the empty mapping {} succeeds and returns the
\* record in which each of the ten fields equals its documented default.
EmptyMappingGivesDefaults ==
    (PayloadCalled /\ payload.t = "dict" /\ Len(payload.v) = 0) =>
        /\ result.kind = "record"
        /\ \A field \in Fields : result.rec[field] = DEFAULT_VALUES[field]

\* the empty mapping was decoded and a record came back
EmptyMappingDecoded ==
    PayloadCalled /\ payload.t = "dict" /\ payload.v = << >> /\ result.kind # "none"


\* the string fields of a mapping whose value is a text longer than the
\* field's maximum
OverLongFields(items) ==
    { field \in Fields : OverLong(items, field) /\ DictGet(items, Key(field)).t = "str" }

\* the first max_length characters of the value of a string field
Truncated(items, field) ==
    PyStr(SubSeq(DictGet(items, Key(field)).v, 1, EXPECTED_FIELDS[field].max_length))

\* C20: for every mapping payload and every string field (name, type, color,
\* manufacturer) whose value is longer than the field's maximum,
\* decode_payload neither rejects the payload nor defaults the field: it
\* returns a record whose field is the first max_length characters of the
\* value.
OverLongStringsTruncated ==
    (PayloadCalled /\ payload.t = "dict" /\ OverLongFields(payload.v) # { }) =>
        /\ result.kind = "record"
        /\ \A field \in OverLongFields(payload.v) :
               result.rec[field] = Truncated(payload.v, field)


\* s is the hex text of at least 10 bytes, possibly with '0x' prefixes,
\* spaces or dashes
IsHexTextOfBytes(s) ==
    /\ \A i \in 1..Len(s) :
          \/ HexDigitVal(s[i]) >= 0
          \/ s[i] \in { 32, 45 }
          \/ s[i] = 120 /\ i > 1 /\ s[i - 1] = 48
    /\ IsHexString(CleanHex(s))
    /\ Len(CleanHex(s)) >= 20

\* the bytes a hex text stands for
BytesOfHexText(s) == PyBytes(fromhex(CleanHex(s), << >>).v)

\* C21: decode_payload of the hex text of a bytes value of at least 10 bytes
\* (with or without '0x', spaces, dashes) ends as decode_payload of the bytes
\* does, also when the text holds decimal digits only or is shaped like a
\* JSON number; decode_payload of the text of a JSON object ends as
\* decode_payload of the parsed mapping does.
StringDispatchAgrees ==
    (PayloadCalled /\ payload.t = "str") =>
        /\ IsHexTextOfBytes(payload.v) => result = decode_payload(BytesOfHexText(payload.v))
        /\ (json_loads(Strip(payload.v)).ok /\ json_loads(Strip(payload.v)).v.t = "dict") =>
               result = decode_payload(json_loads(Strip(payload.v)).v)


\* the name the string data of a bytes payload stands for: the text after
\* offset 16 up to its first NUL, at most 64 characters; the default when
\* that text is empty
NameOfBytes(p) ==
    LET text == Utf8DecodeIgnore(Slice(p, 16, Len(p)))
        n    == CHOOSE i \in 1..(Len(text) + 1) :
                    /\ i = Len(text) + 1 \/ text[i] = 0
                    /\ \A j \in 1..(i - 1) : text[j] # 0
    IN  IF n = 1 THEN DEFAULT_VALUES["name"]
        ELSE PyStr(SubSeq(text, 1, IF n - 1 > 64 THEN 64 ELSE n - 1))

\* a field of the bytes path holds the value read, which is in range, or
\* its default
ReadOrDefault(rec, field, read, lo, hi) ==
    \/ rec[field] = DEFAULT_VALUES[field]
    \/ rec[field] = read /\ NumInRange(read, lo, hi)

BytesFieldsIndependent ==
    (PayloadCalled /\ payload.t = "bytes" /\ Len(payload.v) >= 10 /\ result.kind = "record") =>
        /\ NumInRange(PyInt(UnpackU16(Slice(payload.v, 6, 8))), 0, 150000) =>
               result.rec.bed_temp = PyInt(UnpackU16(Slice(payload.v, 6, 8)))
        /\ (Len(payload.v) >= 16 /\ NumInRange(PyFloat(UnpackF32(Slice(payload.v, 12, 16))), 1000, 3000)) =>
               result.rec.diameter = PyFloat(UnpackF32(Slice(payload.v, 12, 16)))


(***************************************************************************)
(* SpoolDecoder                                                            *)
(***************************************************************************)
\* bool(value)
PyTruthy(value) ==
    CASE value.t = "NoneType" -> FALSE
      [] value.t = "bool" -> value.v
      [] value.t = "int" -> value.v # 0
      [] value.t = "float" -> ~IsZero(value.v)
      [] value.t \in { "str", "bytes", "list", "dict" } -> value.v # << >>
      [] value.t = "set" -> FALSE
      [] OTHER -> TRUE

\* str.upper() of a character: the ASCII and the Latin-1 letters
Upper(c) ==
    IF c >= 97 /\ c <= 122 THEN c - 32
    ELSE IF c >= 224 /\ c <= 254 /\ c # 247 THEN c - 32
    ELSE c
UpperStr(s) == [i \in 1..Len(s) |-> Upper(s[i])]

\* the keys of SUPPORTED_SPOOL_TYPES: PLA, PETG, ABS, TPU, ASA, WOOD,
\* CARBON_FIBER, METAL_FILLED, SUPPORT, PVA (their temperature ranges are
\* only logged)
SUPPORTED_SPOOL_TYPES ==
    { << 80, 76, 65 >>, << 80, 69, 84, 71 >>, << 65, 66, 83 >>, << 84, 80, 85 >>,
      << 65, 83, 65 >>, << 87, 79, 79, 68 >>,
      << 67, 65, 82, 66, 79, 78, 95, 70, 73, 66, 69, 82 >>,
      << 77, 69, 84, 65, 76, 95, 70, 73, 76, 76, 69, 68 >>,
      << 83, 85, 80, 80, 79, 82, 84 >>, << 80, 86, 65 >> }

\* required_fields and optional_fields of _normalize_data
SpoolDefaults ==
    [name |-> PyStr(<< >>), type |-> PyStr(<< 80, 76, 65 >>),
     manufacturer |-> PyStr(<< 85, 110, 107, 110, 111, 119, 110 >>),
     color |-> PyStr(<< 35, 70, 70, 70, 70, 70, 70 >>),
     density |-> PyDec(FALSE, 1240), diameter |-> PyDec(FALSE, 1750),
     nozzle_temp |-> PyInt(200), bed_temp |-> PyInt(60),
     remaining_length |-> PyDec(FALSE, 240000), remaining_weight |-> PyDec(FALSE, 1000000)]

\* how a call of SpoolDecoder.decode ends without a spool
ReturnedNone == [kind |-> "None", exc |-> "", msg |-> "", rec |-> << >>]

\* the outcome of a validation step: [ok, exc, data]; ok = FALSE with
\* exc = "" is "return False"
StepOk(data) == [ok |-> TRUE, exc |-> "", data |-> data]
StepFalse == [ok |-> FALSE, exc |-> "", data |-> << >>]
StepRaise(exc) == [ok |-> FALSE, exc |-> exc, data |-> << >>]

\* _validate_color_format
validate_color_format(color) ==
    /\ Len(color) = 7
    /\ color[1] = 35
    /\ \A i \in 2..7 : HexDigitVal(color[i]) >= 0

\* the string fields of _validate_field_types: a value that is no str
\* becomes its text, None fails
SpoolStrings(data) ==
    IF \E field \in { "name", "type", "manufacturer", "color" } : data[field].t = "NoneType"
      THEN StepFalse
      ELSE StepOk([field \in DOMAIN data |->
                     IF field \in { "name", "type", "manufacturer", "color" }
                       THEN PyStr(ToStr(data[field]))
                       ELSE data[field]])

SpoolNumericFields ==
    { "density", "diameter", "nozzle_temp", "bed_temp", "remaining_length", "remaining_weight" }

\* the numeric fields of _validate_field_types: float(value) of every value
\* that is not None; a value outside its range is only logged
SpoolNumbers(data) ==
    IF \E field \in SpoolNumericFields :
          data[field].t # "NoneType" /\ ~ToFloat(data[field]).ok
      THEN StepFalse
      ELSE StepOk([field \in DOMAIN data |->
                     IF field \in SpoolNumericFields /\ data[field].t # "NoneType"
                       THEN PyFloat(ToFloat(data[field]).f)
                       ELSE data[field]])

\* the color of _validate_field_types: a non-empty text that is no hex color
\* becomes '#FFFFFF'
SpoolColor(data) ==
    IF data["color"].v # << >> /\ ~validate_color_format(data["color"].v)
      THEN [data EXCEPT !["color"] = PyStr(<< 35, 70, 70, 70, 70, 70, 70 >>)]
      ELSE data

\* _validate_temperatures: for a supported type the comparison of a
\* temperature that is None raises TypeError
validate_temperatures(data) ==
    IF UpperStr(data["type"].v) \notin SUPPORTED_SPOOL_TYPES THEN StepOk(data)
    ELSE IF data["nozzle_temp"].t = "NoneType" \/ data["bed_temp"].t = "NoneType"
      THEN StepRaise("TypeError")
    ELSE StepOk(data)

\* _validate_field_types: every exception inside is caught and gives False
validate_field_types(data) ==
    IF ~SpoolStrings(data).ok THEN StepFalse
    ELSE IF ~SpoolNumbers(SpoolStrings(data).data).ok THEN StepFalse
    ELSE IF ~validate_temperatures(SpoolColor(SpoolNumbers(SpoolStrings(data).data).data)).ok
      THEN StepFalse
    ELSE StepOk(SpoolColor(SpoolNumbers(SpoolStrings(data).data).data))

\* the fields copied by _normalize_data: the value of the payload or the default
SpoolCopied(items) ==
    [field \in Fields |->
        IF HasKey(items, Key(field)) THEN DictGet(items, Key(field)) ELSE SpoolDefaults[field]]

\* "normalized['type'] = normalized['type'].upper()" for a truthy type: a
\* type that is no str has no upper()
SpoolTypeUpper(copied) ==
    IF ~PyTruthy(copied["type"]) THEN StepOk(copied)
    ELSE IF copied["type"].t # "str" THEN StepRaise("AttributeError")
    ELSE StepOk([copied EXCEPT !["type"] = PyStr(UpperStr(copied["type"].v))])

\* _normalize_data
normalize_data(data) ==
    IF data.t # "dict" THEN StepFalse
    ELSE IF ~SpoolTypeUpper(SpoolCopied(data.v)).ok THEN SpoolTypeUpper(SpoolCopied(data.v))
    ELSE validate_field_types(SpoolTypeUpper(SpoolCopied(data.v)).data)

\* the rest of decode once the payload is parsed: _normalize_data runs
\* outside every try block, FilamentSpool.from_dict takes the ten fields
SpoolOfData(data) ==
    IF normalize_data(data).ok THEN Returned(normalize_data(data).data)
    ELSE IF normalize_data(data).exc # "" THEN Raised(normalize_data(data).exc, "normalize")
    ELSE ReturnedNone

\* SpoolDecoder.decode
SpoolDecoder_decode(p) ==
    IF ~PyTruthy(p) THEN ReturnedNone
    ELSE IF p.t = "str"
      THEN IF json_loads(p.v).ok THEN SpoolOfData(json_loads(p.v).v) ELSE ReturnedNone
    ELSE IF p.t = "dict" THEN SpoolOfData(p)
    ELSE ReturnedNone

(***************************************************************************)
(* Specification SpecSpool: a caller hands one payload after another to    *)
(* decode of one SpoolDecoder (validation_enabled as constructed) and      *)
(* takes the result of a call before it makes the next one.                *)
(***************************************************************************)
\* decode(p)
SpoolDecode(p) ==
    /\ payload = NoPayload
    /\ payload' = p
    /\ \E r \in { SpoolDecoder_decode(p) } : result' = r
    /\ UNCHANGED << cryptodome, encoder, decoder, image, origin, last, ctor, threads, device, auth, calls >>

SpoolDecodeMapping(field, i, j, k) ==
    SpoolDecode(MappingOf(<< [k |-> Key(field), v |-> RawValues[field][i]] >>, j, k))

SpoolDecodeBareMapping(j, k) == SpoolDecode(MappingOf(<< >>, j, k))

SpoolDecodeString(n) == SpoolDecode(StringPayloads[n])

SpoolDecodeOther(n) == SpoolDecode(OtherPayloads[n])

NextSpool ==
    \/ \E field \in Fields : \E i \in 1..Len(RawValues[field]) :
       \E j \in 0..Len(SecondItems), k \in 0..Len(UnknownItems) :
          SpoolDecodeMapping(field, i, j, k)
    \/ \E j \in 0..Len(SecondItems), k \in 0..Len(UnknownItems) : SpoolDecodeBareMapping(j, k)
    \/ \E n \in 1..Len(StringPayloads) : SpoolDecodeString(n)
    \/ \E n \in 1..Len(OtherPayloads) : SpoolDecodeOther(n)
    \/ TakeResult

SpecSpool == InitPayload /\ [][NextSpool]_vars

\* C23: SpoolDecoder.decode never raises: for every payload (None, an empty
\* string, invalid JSON, JSON that is no object, a dict or JSON object whose
\* fields have any types, a 'type' that is no string included) it returns a
\* FilamentSpool or None.
SpoolDecodeNeverRaises ==
    PayloadCalled => result.kind \in { "record", "None" }


(***************************************************************************)
(* What a failing decode_tag_data leaves behind in the instance            *)
(***************************************************************************)
\* the last step was a decode_tag_data call that returned None
DecodeFailed ==
    last.op = "decode" /\ last.outcome \in { "too_short", "header_invalid", "checksum_mismatch" }

StringFieldsOf(rec) ==
    { [offset |-> SPOOL_DATA_OFFSET + 25, string |-> rec.spool_data.manufacturer,
       without |-> [rec EXCEPT !.spool_data.manufacturer = << >>]],
      [offset |-> SPOOL_DATA_OFFSET + 25 + STRING_FIELD, string |-> rec.spool_data.name,
       without |-> [rec EXCEPT !.spool_data.name = << >>]],
      [offset |-> MFG_OFFSET, string |-> rec.manufacturing_info.serial,
       without |-> [rec EXCEPT !.manufacturing_info.serial = << >>]] }

\* the unencrypted image holds, from the offset of the field on, the first
\* bytes of the string (31 at most) and a NUL, and is outside the 32 bytes
\* of the field and outside the checksum what it is without the string
StringInField(plain, f) ==
    LET written == Slice(Utf8Encode(f.string), 0, 31)
    IN  /\ Slice(plain, f.offset, f.offset + Len(written)) = written
        /\ plain[f.offset + Len(written) + 1] = 0
        /\ f.offset + Len(written) < f.offset + 32
        /\ \A i \in 0..(TAG_SIZE - 1) :
              (i < f.offset \/ i >= f.offset + 32)
                /\ (i < CHECKSUM_OFFSET \/ i >= CHECKSUM_OFFSET + CHECKSUM_SIZE)
              => plain[i + 1] = PlainFields(f.without)[i + 1]

\* C27: for every string value of manufacturer, name and serial
\* encode_tag_data writes at most the first 31 bytes of its UTF-8 encoding
\* followed by a NUL byte and writes nothing outside the 32 bytes of the
\* field (153..184, 185..216, 256..287): no neighbouring field is overwritten.
StringsStayInField ==
    last.op = "encode" /\ last.outcome = "ok" =>
        /\ { f.offset : f \in StringFieldsOf(Written) } = { 153, 185, 256 }
        /\ \E plain \in { Plain(last.key, image) } :
              \A f \in StringFieldsOf(Written) : StringInField(plain, f)

\* a record whose manufacturer has more than 31 bytes was written next to a
\* name that is not empty
LongStringWritten ==
    /\ last.op = "encode" /\ last.outcome = "ok"
    /\ Len(Utf8Encode(Written.spool_data.manufacturer)) > 31
    /\ Written.spool_data.name # << >>
    /\ Plain(last.key, image)[186] # 0


\* the text of a string field of the unencrypted image: the UTF-8 decoding
\* of the bytes before the first zero byte among the 32 bytes of the field,
\* of all 32 bytes when none of them is zero
FieldText(plain, offset) ==
    LET zeros == { i \in offset..(offset + 31) : plain[i + 1] = 0 }
        end_pos == IF zeros = {} THEN offset + 32
                   ELSE CHOOSE i \in zeros : \A j \in zeros : i <= j
    IN  Utf8Decode(Slice(plain, offset, end_pos))

\* C28: for every decrypted image that passes the checksum the decoded
\* manufacturer, name and serial are the UTF-8 decoding of the bytes before
\* the first zero byte inside the 32 bytes of the field, and of all 32 bytes
\* when the field holds no zero byte.
ExtractedStringsAreFieldTexts ==
    last.op = "decode" /\ last.outcome = "ok" =>
        \E plain \in { Plain(last.key, image) } :
           /\ last.record.spool_data.manufacturer = FieldText(plain, 153)
           /\ last.record.spool_data.name = FieldText(plain, 185)
           /\ last.record.manufacturing_info.serial = FieldText(plain, 256)


(***************************************************************************)
(* AuthorizationService                                                    *)
(***************************************************************************)
\* "admin" and "admin123"
AdminName == << 97, 100, 109, 105, 110 >>
AdminPassword == << 97, 100, 109, 105, 110, 49, 50, 51 >>

\* the outcome of a method call: the instance afterwards and the value returned
Outcome(self, ret) == [self |-> self, ret |-> ret]

\* authenticate_user as if the user name alone decided
authenticate_user_by_name(self, username, password) ==
    IF username.t = "str" /\ username.v = AdminName
      THEN Outcome([authorized |-> TRUE, user_authenticated |-> TRUE], PyBool(TRUE))
      ELSE Outcome(self, PyBool(FALSE))

\* authenticate_user(username, password)
authenticate_user(self, username, password) ==
    IF /\ username.t = "str" /\ username.v = AdminName
       /\ password.t = "str" /\ password.v = AdminPassword
      THEN Outcome([authorized |-> TRUE, user_authenticated |-> TRUE], PyBool(TRUE))
      ELSE Outcome(self, PyBool(FALSE))

\* is_authorized()
is_authorized(self) == self.authorized /\ self.user_authenticated

\* revoke_authorization()
revoke_authorization(self) ==
    Outcome([authorized |-> FALSE, user_authenticated |-> FALSE], PyNone)

\* get_current_user()
get_current_user(self) ==
    IF self.user_authenticated THEN PyStr(AdminName) ELSE PyNone


(***************************************************************************)
(* NFCDevice in simulation mode.  Its encoder and decoder are the          *)
(* instances `encoder` and `decoder`, both constructed without a UID.      *)
(***************************************************************************)
\* the names bound in the module device.py when a method of NFCDevice runs
\* (the import of nfc has failed)
DeviceGlobals ==
    { "time", "random", "logging", "Dict", "Optional", "Tuple", "Any", "Union", "os",
      "FilamentSpool", "BambuLabNFCEncoder", "BambuLabNFCDecoder", "logger",
      "SIMULATION_MODE", "NFC_AVAILABLE", "NFCDevice" }

\* connect() as if it reported success without storing the connection
connect_unstored(self) == Outcome(self, PyBool(TRUE))

\* connect()
connect(self) == Outcome([self EXCEPT !.connected = TRUE], PyBool(TRUE))

\* disconnect()
disconnect(self) ==
    IF ~self.connected THEN Outcome(self, PyNone)
    ELSE Outcome([self EXCEPT !.connected = FALSE], PyNone)

\* int(value): of an int or a bool the number, of a float the number towards
\* zero, of a str or bytes the decimal number it spells
IntOf(value) ==
    IF value.t = "int" THEN Value(value.v)
    ELSE IF value.t = "bool" THEN Value(IF value.v THEN 1 ELSE 0)
    ELSE IF value.t = "float" THEN ToInt(value.v)
    ELSE IF value.t \in { "str", "bytes" }
      THEN LET s    == Strip(value.v)
               neg  == s # << >> /\ s[1] = 45
               body == IF s # << >> /\ s[1] \in { 43, 45 } THEN Tail(s) ELSE s
           IN  IF body # << >> /\ AllDigits(body)
                 THEN Value(IF neg THEN -DigitsVal(body, 0) ELSE DigitsVal(body, 0))
                 ELSE Raise("ValueError")
    ELSE Raise("TypeError")

\* data_dict.get(field, default)
GetOr(items, field, default) ==
    IF HasKey(items, Key(field)) THEN DictGet(items, Key(field)) ELSE default

\* the conversions float(...) and int(...) that build tag_data raise
TagDataRaises(items) ==
    \/ ~ToFloat(GetOr(items, "diameter", PyDec(FALSE, 1750))).ok
    \/ ~IntOf(GetOr(items, "nozzle_temp", PyInt(220))).ok
    \/ ~IntOf(GetOr(items, "bed_temp", PyInt(60))).ok
    \/ ~ToFloat(GetOr(items, "density", PyDec(FALSE, 1240))).ok
    \/ ~ToFloat(GetOr(items, "remaining_length", PyDec(FALSE, 240000))).ok
    \/ ~ToFloat(GetOr(items, "remaining_weight", PyDec(FALSE, 1000000))).ok

\* int(s, 16) of two characters gives a byte
HexPair(a, b) ==
    \/ HexDigitVal(a) >= 0 /\ HexDigitVal(b) >= 0
    \/ IsSpace(a) /\ HexDigitVal(b) >= 0
    \/ HexDigitVal(a) >= 0 /\ IsSpace(b)
    \/ a = 43 /\ HexDigitVal(b) >= 0

\* encode_tag_data raises on the tag_data built from the mapping: a type
\* that cannot be a dict key, a color that is no str or spells no bytes, a
\* temperature that "<H" cannot hold, a manufacturer or name that is no str
TagEncodeRaises(items) ==
    \/ GetOr(items, "type", PyStr(<< 80, 76, 65 >>)).t \in { "list", "dict", "set" }
    \/ \E color \in { GetOr(items, "color", PyStr(<< 35, 70, 70, 70, 70, 70, 70 >>)) } :
          \/ color.t # "str"
          \/ /\ Len(color.v) = 7 /\ color.v[1] = 35
             /\ \E i \in { 2, 4, 6 } : ~HexPair(color.v[i], color.v[i + 1])
    \/ IntOf(GetOr(items, "nozzle_temp", PyInt(220))).f \notin 0..65535
    \/ IntOf(GetOr(items, "bed_temp", PyInt(60))).f \notin 0..65535
    \/ GetOr(items, "manufacturer", PyStr(<< >>)).t # "str"
    \/ GetOr(items, "name", PyStr(<< >>)).t # "str"

\* write_tag(data) in simulation mode: the values it can return.  Every
\* exception gives False; "random.random() > 0.1" decides otherwise.  The
\* encoder is called without a UID and stays as it is.
write_tag(self, data) ==
    IF ~self.connected THEN { PyBool(FALSE) }
    ELSE IF data.t # "dict" THEN { PyBool(FALSE) }
    ELSE IF TagDataRaises(data.v) \/ TagEncodeRaises(data.v) THEN { PyBool(FALSE) }
    ELSE { PyBool(TRUE), PyBool(FALSE) }

\* the tag_data of _simulate_read_raw_tag_data: PLA of Bambu Lab with a
\* random color, temperatures, amounts, name and serial
SimulatedTags == { SAMPLE_TAG_DATA }

\* filament_data of read_tag: the ten fields of the decoded spool_data, each
\* value as decode_tag_data gave it
FilamentData(spool_data) ==
    PyDict(<< [k |-> Key("name"), v |-> PyStr(spool_data.name)],
              [k |-> Key("type"), v |-> PyStr(spool_data.type)],
              [k |-> Key("color"), v |-> PyStr(spool_data.color)],
              [k |-> Key("manufacturer"), v |-> PyStr(spool_data.manufacturer)],
              [k |-> Key("density"), v |-> PyFloat(spool_data.density)],
              [k |-> Key("diameter"), v |-> PyFloat(spool_data.diameter)],
              [k |-> Key("nozzle_temp"), v |-> PyInt(spool_data.nozzle_temp)],
              [k |-> Key("bed_temp"), v |-> PyInt(spool_data.bed_temp)],
              [k |-> Key("remaining_length"), v |-> PyFloat(spool_data.remaining_length)],
              [k |-> Key("remaining_weight"), v |-> PyFloat(spool_data.remaining_weight)] >>)

\* what read_tag returns for the raw data of a simulated tag, and the
\* decoder afterwards
ReadSimulated(enc, dec, tag_data) ==
    LET res == decode_tag_data(dec, encode_tag_data(enc, tag_data, None).data, None)
    IN  [ret |-> IF res.outcome = "ok" THEN FilamentData(res.record.spool_data) ELSE PyNone,
         decoder |-> res.self]

\* read_tag() in simulation mode: the values it can return, each with the
\* decoder afterwards.  "random.random() > SIMULATION_FAILURE_RATE" looks up
\* a name that no module binds: the NameError is caught by the handler of
\* read_tag, which returns None.
read_tag(self, enc, dec) ==
    IF ~self.connected THEN { [ret |-> PyNone, decoder |-> dec] }
    ELSE IF "SIMULATION_FAILURE_RATE" \notin DeviceGlobals
      THEN { [ret |-> PyNone, decoder |-> dec] }
    ELSE { [ret |-> PyNone, decoder |-> dec] }
           \cup { ReadSimulated(enc, dec, tag_data) : tag_data \in SimulatedTags }


(***************************************************************************)
(* Specification SpecDevice: one NFCDevice in simulation mode and the      *)
(* global AuthorizationService; a caller makes up to MaxCalls calls of     *)
(* connect, disconnect, read_tag, write_tag, authenticate_user and         *)
(* revoke_authorization in any order.                                      *)
(***************************************************************************)
MaxCalls == 3

\* the arguments of authenticate_user: None, "admin", "user" and None,
\* "admin123", "admin"
Usernames == << PyNone, PyStr(AdminName), PyStr(<< 117, 115, 101, 114 >>) >>
Passwords == << PyNone, PyStr(AdminPassword), PyStr(AdminName) >>

\* the arguments of write_tag: {}, a spool, {"nozzle_temp": "hot"},
\* {"nozzle_temp": 70000}, {"color": "#GGGGGG"}, {"name": 5}, None
WriteData ==
    << PyDict(<< >>),
       PyDict(<< [k |-> Key("name"), v |-> PyStr(<< 80, 76, 65, 32, 66, 97, 115, 105, 99 >>)],
                 [k |-> Key("type"), v |-> PyStr(<< 80, 76, 65 >>)],
                 [k |-> Key("color"), v |-> PyStr(<< 35, 70, 70, 48, 48, 48, 48 >>)],
                 [k |-> Key("nozzle_temp"), v |-> PyInt(220)] >>),
       PyDict(<< [k |-> Key("nozzle_temp"), v |-> PyStr(<< 104, 111, 116 >>)] >>),
       PyDict(<< [k |-> Key("nozzle_temp"), v |-> PyInt(70000)] >>),
       PyDict(<< [k |-> Key("color"), v |-> PyStr(<< 35, 71, 71, 71, 71, 71, 71 >>)] >>),
       PyDict(<< [k |-> Key("name"), v |-> PyInt(5)] >>),
       PyNone >>

\* one more call in the history: what was called with which arguments, what
\* it returned, whether the device was connected, and the service before
\* and after
Called(op, args, ret, after) ==
    /\ Len(calls) < MaxCalls
    /\ calls' = Append(calls, [op |-> op, args |-> args, ret |-> ret,
                               connected |-> device.connected,
                               before |-> auth, after |-> after])

InitDevice ==
    /\ cryptodome \in BOOLEAN
    /\ ctor = [enc |-> None, dec |-> None]
    /\ encoder = NewCodec(ctor.enc)
    /\ decoder = NewCodec(ctor.dec)
    /\ image = << >>
    /\ origin = NoOrigin
    /\ last = NoCall
    /\ threads = << >>
    /\ payload = NoPayload /\ result = NoResult
    /\ device = NewDevice /\ auth = NewAuthorizationService /\ calls = << >>

Codec == << cryptodome, encoder, image, origin, last, ctor, threads, payload, result >>

\* device.connect()
Connect ==
    /\ \E r \in { connect(device) } :
          device' = r.self /\ Called("connect", << >>, r.ret, auth)
    /\ UNCHANGED << Codec, decoder, auth >>

\* device.disconnect()
Disconnect ==
    /\ \E r \in { disconnect(device) } :
          device' = r.self /\ Called("disconnect", << >>, r.ret, auth)
    /\ UNCHANGED << Codec, decoder, auth >>

\* device.read_tag()
ReadTag ==
    /\ \E r \in read_tag(device, encoder, decoder) :
          decoder' = r.decoder /\ Called("read_tag", << >>, r.ret, auth)
    /\ UNCHANGED << Codec, device, auth >>

\* device.write_tag(WriteData[n])
WriteTag(n) ==
    /\ \E ret \in write_tag(device, WriteData[n]) :
          Called("write_tag", << WriteData[n] >>, ret, auth)
    /\ UNCHANGED << Codec, decoder, device, auth >>

\* get_auth_service().authenticate_user(Usernames[i], Passwords[j])
AuthenticateUser(i, j) ==
    /\ \E r \in { authenticate_user(auth, Usernames[i], Passwords[j]) } :
          auth' = r.self
            /\ Called("authenticate_user", << Usernames[i], Passwords[j] >>, r.ret, r.self)
    /\ UNCHANGED << Codec, decoder, device >>

\* get_auth_service().revoke_authorization()
RevokeAuthorization ==
    /\ \E r \in { revoke_authorization(auth) } :
          auth' = r.self /\ Called("revoke_authorization", << >>, r.ret, r.self)
    /\ UNCHANGED << Codec, decoder, device >>

NextDevice ==
    \/ Connect
    \/ Disconnect
    \/ ReadTag
    \/ \E n \in 1..Len(WriteData) : WriteTag(n)
    \/ \E i \in 1..Len(Usernames), j \in 1..Len(Passwords) : AuthenticateUser(i, j)
    \/ RevokeAuthorization

SpecDevice == InitDevice /\ [][NextDevice]_vars


(***************************************************************************)
(* Properties of SpecDevice                                                *)
(***************************************************************************)
\* the value is a dict with the keys name, type, color and manufacturer
IsSpoolDict(value) ==
    /\ value.t = "dict"
    /\ \A field \in { "name", "type", "color", "manufacturer" } : HasKey(value.v, Key(field))

\* C24: in simulation mode every read_tag() call made while the device is
\* connected (after connect() returned True) returns a dict with the keys
\* name, type, color and manufacturer; before connect() and after
\* disconnect() read_tag() returns None.
SimulatedReadReturnsSpool ==
    \A i \in DOMAIN calls :
        calls[i].op = "read_tag" =>
            IF calls[i].connected THEN IsSpoolDict(calls[i].ret)
            ELSE calls[i].ret.t = "NoneType"


\* C25: whenever the global authorization service is not authorized,
\* read_tag() on a connected NFCDevice returns None and write_tag(data)
\* returns False for every data; access is granted only after a successful
\* authenticate_user and is denied again after revoke_authorization.
UnauthorizedAccessDenied ==
    \A i \in DOMAIN calls :
        (calls[i].connected /\ ~is_authorized(calls[i].before)) =>
            /\ calls[i].op = "read_tag" => calls[i].ret.t = "NoneType"
            /\ calls[i].op = "write_tag" => calls[i].ret = PyBool(FALSE)

\* the arguments are the pair that authenticate_user accepts
ValidCredentials(args) ==
    /\ args[1].t = "str" /\ args[1].v = << 97, 100, 109, 105, 110 >>
    /\ args[2].t = "str" /\ args[2].v = << 97, 100, 109, 105, 110, 49, 50, 51 >>

\* the calls that grant or withdraw the authorization
Decisive ==
    { i \in DOMAIN calls :
        \/ calls[i].op = "revoke_authorization"
        \/ calls[i].op = "authenticate_user" /\ ValidCredentials(calls[i].args) }

\* C26: after any sequence of authenticate_user and revoke_authorization
\* calls is_authorized() is true exactly when the most recent call among
\* authenticate_user with the valid credentials and revoke_authorization was
\* the authenticate; a failed authenticate_user returns False and changes
\* nothing; _authorized always equals _user_authenticated; get_current_user()
\* is 'admin' when authorized and None otherwise.
AuthorizationStateMachine ==
    /\ is_authorized(auth) <=>
          /\ Decisive # {}
          /\ calls[CHOOSE i \in Decisive : \A j \in Decisive : j <= i].op = "authenticate_user"
    /\ \A i \in DOMAIN calls :
          calls[i].op = "authenticate_user" =>
              IF ValidCredentials(calls[i].args)
                THEN calls[i].ret = PyBool(TRUE) /\ is_authorized(calls[i].after)
                ELSE calls[i].ret = PyBool(FALSE) /\ calls[i].after = calls[i].before
    /\ auth.authorized = auth.user_authenticated
    /\ IF is_authorized(auth)
         THEN get_current_user(auth).t = "str" /\ get_current_user(auth).v = << 97, 100, 109, 105, 110 >>
         ELSE get_current_user(auth).t = "NoneType"

\* the service was authorized, revoked, and then refused 'admin' with a
\* wrong password
RevokedThenRefused ==
    /\ Len(calls) = 3
    /\ calls[1].op = "authenticate_user" /\ calls[1].ret = PyBool(TRUE)
    /\ is_authorized(calls[1].after)
    /\ calls[2].op = "revoke_authorization"
    /\ calls[3].op = "authenticate_user" /\ calls[3].ret = PyBool(FALSE)
    /\ calls[3].args[1].t = "str" /\ calls[3].args[1].v = AdminName
    /\ ~is_authorized(auth)

=============================================================================
